---- MODULE Spec2Model ----
(***************************************************************************)
(* Model of gopack: the Packer (Pack / Compile), the re-readable           *)
(* CopyBuffer that carries metadata streams, and the Target value type.    *)
(*                                                                         *)
(* Three specifications share the module:                                  *)
(*   SpecPack        Packer.Pack and Packer.Compile with their goroutines  *)
(*   SpecCopyBuffer  readers of one CopyBuffer (ioutil.ReadAll loops)      *)
(*   SpecTarget      Target.String and NewTarget                           *)
(* Each one leaves the variables of the other two at their initial value.  *)
(***************************************************************************)
EXTENDS Integers, Sequences, FiniteSets, TLC

VARIABLES
    \* ---- util.CopyBuffer and its readers
    Cursor,       \* CopyBuffer.Cursor
    Data,         \* CopyBuffer.Data (the bytes)
    DataNil,      \* CopyBuffer.Data == nil
    seed,         \* the slice handed to NewCopyBuffer
    numReaders,   \* how many tasks read the one buffer
    rdPc,         \* per reader: "idle", "call", "copied", "eof"
    rdN,          \* per reader: n of the Read call in progress
    rdOut,        \* per reader: bytes accumulated by the ReadAll in progress
    rdRounds,     \* per reader: complete reads finished so far
    \* ---- Target
    tgtPc,        \* "target", "formatted", "roundtrip", "input", "parsed"
    tgt,          \* the Target value being formatted
    str,          \* the string under conversion
    parsed,       \* result of NewTarget
    \* ---- Packer
    Targets,      \* p.Info.Targets
    hasICO,       \* p.MetaData.Windows.ICO != nil
    packPc,       \* position of Pack
    packErr,      \* what Pack returned
    packWg,       \* Pack's WaitGroup counter
    bidx,         \* Pack's loop index over p.Artifacts
    bundlePc,     \* per artifact index: "none", "run", "done"
    bundleRes,    \* per artifact index: "none", "ok", "failed", "ignored", "skipped"
    compilePc,    \* position of Compile
    compileRet,   \* what Compile returned
    idx,          \* Compile's loop index over p.Info.Targets
    wg,           \* Compile's WaitGroup counter
    errs,         \* buffer of the errs channel
    taskPc,       \* per target index: position of its goroutine
    taskHdr,      \* per target index: p.Artifacts as read by its append
    Artifacts,    \* p.Artifacts
    logged,       \* log.Printf lines: <<target index, message>>
    sandboxFiles, \* per sandbox directory: the files in it
    iconFile,     \* state of <tmp>/gopack/icon.ico
    faults,       \* failures of the environment injected so far
    Root,         \* what the path p.Info.Root names: "dir", "file", "missing"
    Pkg,          \* p.Info.Pkg
    supplied,     \* the caller filled in every field of p.MetaData
    iconPng,      \* the project root holds an icon.png
    defaultIcon,  \* a default.png is compiled into the program
    Icon,         \* p.MetaData.Icon != nil
    dist,         \* per artifact index: files its bundler wrote to <output>/<target>/
    printed,      \* main printed "error: ..."
    exitCode,     \* exit status of the pack command, -1 while it runs
    \* ---- ico.FromPNG
    icoPc,        \* "open", "scale", "create", "entries", "data", "done", "error"
    decodable,    \* pngfile opens and decodes as a PNG
    icons,        \* the local slice icons ([]Container)
    icoI,         \* index of the running loop
    offset,       \* the local offset (uint32)
    outfile,      \* the bytes of iconfile
    \* ---- rsrc.Embed, one entry per run
    embPc,        \* "start", "icons", "return", "write", "done", "error"
    embIcons,     \* per icon argument: the image count in its ICONDIR
    embI,         \* index of the icon argument the loop is at
    id,           \* the id variable the run's idGenerator closure captured
    resources,    \* what addIcon registered, one record per icon with images
    fopen,        \* the icon arguments whose file f is open, per run
    \* ---- util.Finder and util.Copier
    fsPc,         \* "find", "copy", "done", "error"
    tree,         \* the entries of Universe that exist under the root
    from,         \* the path of the root (Finder.Root, Copy's from)
    name,         \* the name Find is called with
    IsDir,        \* Finder.IsDir
    Rel,          \* Finder.Rel
    walkPos,      \* position of filepath.Walk in the walk order
    found,        \* the local found of Find
    findRet,      \* the path Find returned
    copied,       \* paths Copy created under to (relative to to)
    \* ---- the environment of the compiler command
    envPc,        \* "GOOS", "GOARCH", "Environ", "run"
    envTarget,    \* the target of the task
    environ,      \* os.Environ() of the parent process
    cmdEnv,       \* cmd.Env
    \* ---- dmg
    dmgPc,        \* "walk", "write", "error"
    appTree,      \* the entries of AppUniverse that exist under src
    dmgSrc,       \* the path of the .app directory
    dmgPos,       \* position of filepath.Walk in the walk order
    image,        \* the image paths handed to writer.AddFile, in order
    \* ---- cp
    cpPc,         \* "call", "opened", "copy", "returned"
    srcData,      \* the content of the file src
    dstFile,      \* the file system entry at dst
    cpRet         \* "nil" or the error cp returned

cbVars  == <<Cursor, Data, DataNil, seed, numReaders, rdPc, rdN, rdOut, rdRounds>>
tgtVars == <<tgtPc, tgt, str, parsed>>
inVars  == <<Root, supplied, iconPng, defaultIcon>>
packVars == <<Targets, hasICO, packPc, packErr, packWg, bidx, bundlePc, bundleRes,
              compilePc, compileRet, idx, wg, errs, taskPc, taskHdr, Artifacts,
              logged, sandboxFiles, iconFile, faults, inVars, Pkg, Icon, dist,
              printed, exitCode>>
icoVars == <<icoPc, decodable, icons, icoI, offset, outfile>>
rsrcVars == <<embPc, embIcons, embI, id, resources, fopen>>
fsVars  == <<fsPc, tree, from, name, IsDir, Rel, walkPos, found, findRet, copied>>
envVars == <<envPc, envTarget, environ, cmdEnv>>
dmgVars == <<dmgPc, appTree, dmgSrc, dmgPos, image>>
cpVars  == <<cpPc, srcData, dstFile, cpRet>>
auxVars == <<envVars, dmgVars, cpVars>>
pureVars == <<icoVars, rsrcVars, fsVars, auxVars>>
vars    == <<cbVars, tgtVars, packVars, pureVars>>

Min(a, b) == IF a < b THEN a ELSE b

(***************************************************************************)
(* Bounds                                                                  *)
(***************************************************************************)
MaxLen     == 3    \* longest Data
MaxByte    == 2    \* bytes are 1..MaxByte
MaxChunk   == 2    \* longest buffer a reader passes to Read
MaxReaders == 2    \* tasks sharing one CopyBuffer
MaxReReads == 2    \* complete reads per reader
MaxTargets == 2    \* longest p.Info.Targets
MaxFaults  == 1    \* failures the environment injects in one run
MaxPayload == 2    \* longest PNG payload of one icon image, in bytes
MaxRuns    == 2    \* concurrent runs of rsrc.Embed
MaxIcons   == 1    \* icon arguments of one Embed call
MaxImages  == 2    \* images in an ordinary ICO file
MaxEntries == 4    \* files and directories under a project root
MaxEnv     == 2    \* entries in the environment of the parent process
MaxAppEntries == 5 \* files and directories under a .app directory
MaxFileLen == 2    \* longest content of a file cp reads or overwrites

Readers == 1..MaxReaders

RECURSIVE SeqsUpTo(_, _)
SeqsUpTo(S, n) ==
    IF n = 0 THEN {<<>>}
    ELSE LET shorter == SeqsUpTo(S, n - 1)
         IN shorter \cup {Append(s, b) : s \in {t \in shorter : Len(t) = n - 1}, b \in S}

(***************************************************************************)
(* util.CopyBuffer                                                         *)
(***************************************************************************)

\* NewCopyBuffer: Cursor is the zero value, Data the given slice.
NewCopyBuffer(buffer, isNil) ==
    [Cursor |-> 0, Data |-> buffer, DataNil |-> isNil]

\* Lines 22-32 of Read: the nil test, the capped end and the copy out of Data.
\* cursor is b.Cursor as read by the call, plen is len(p).
ReadCopy(cursor, data, isNil, plen) ==
    IF isNil
    THEN [n |-> 0, p |-> <<>>, eof |-> TRUE]
    ELSE LET sum == plen + cursor
             end == IF sum > Len(data) THEN Len(data) ELSE sum
             src == SubSeq(data, cursor + 1, end)
             n   == Min(plen, Len(src))
         IN [n |-> n, p |-> SubSeq(src, 1, n), eof |-> FALSE]

\* ReadAdvance without the reset of line 36: the cursor stays at the end.
ReadAdvanceNoReset(cursor, data, n) ==
    LET c == cursor + n
    IN IF c >= Len(data)
       THEN [Cursor |-> c, eof |-> TRUE]
       ELSE [Cursor |-> c, eof |-> FALSE]

\* Lines 33-39 of Read: advance the cursor by n, reset it once the buffer has
\* been fully traversed and report io.EOF in that case.
ReadAdvance(cursor, data, n) ==
    LET c == cursor + n
    IN IF c >= Len(data)
       THEN [Cursor |-> 0, eof |-> TRUE]
       ELSE [Cursor |-> c, eof |-> FALSE]

InitCopyBuffer ==
    /\ \E isNil \in BOOLEAN :
         \E buffer \in (IF isNil THEN {<<>>} ELSE SeqsUpTo(1..MaxByte, MaxLen)) :
            LET b == NewCopyBuffer(buffer, isNil)
            IN /\ Cursor = b.Cursor
               /\ Data = b.Data
               /\ DataNil = b.DataNil
               /\ seed = buffer
    /\ numReaders = 1
    /\ rdPc = [r \in Readers |-> "idle"]
    /\ rdN = [r \in Readers |-> 0]
    /\ rdOut = [r \in Readers |-> <<>>]
    /\ rdRounds = [r \in Readers |-> 0]

\* Several tasks hold the same *CopyBuffer (Compile hands the one
\* p.MetaData.Windows.ICO to every Windows task, Pack the one
\* p.MetaData.Darwin.ICNS to every macOS bundler).
InitSharedBuffer ==
    /\ \E buffer \in SeqsUpTo(1..MaxByte, MaxLen) :
         LET b == NewCopyBuffer(buffer, FALSE)
         IN /\ Cursor = b.Cursor
            /\ Data = b.Data
            /\ DataNil = b.DataNil
            /\ seed = buffer
    /\ numReaders \in 2..MaxReaders
    /\ rdPc = [r \in Readers |-> "idle"]
    /\ rdN = [r \in Readers |-> 0]
    /\ rdOut = [r \in Readers |-> <<>>]
    /\ rdRounds = [r \in Readers |-> 0]

\* A reader starts to read the stream to completion (ioutil.ReadAll).
ReadAllStart(r) ==
    /\ r <= numReaders
    /\ rdPc[r] = "idle"
    /\ rdRounds[r] < MaxReReads
    /\ rdPc' = [rdPc EXCEPT ![r] = "call"]
    /\ rdOut' = [rdOut EXCEPT ![r] = <<>>]
    /\ UNCHANGED <<Cursor, Data, DataNil, seed, numReaders, rdN, rdRounds>>
    /\ UNCHANGED <<tgtVars, packVars, pureVars>>

\* First half of one Read call with a buffer of k >= 1 bytes: the copy.
ReadCall(r, k) ==
    /\ rdPc[r] = "call"
    /\ LET res == ReadCopy(Cursor, Data, DataNil, k)
       IN /\ rdOut' = [rdOut EXCEPT ![r] = rdOut[r] \o res.p]
          /\ rdN' = [rdN EXCEPT ![r] = res.n]
          /\ rdPc' = [rdPc EXCEPT ![r] = IF res.eof THEN "eof" ELSE "copied"]
    /\ UNCHANGED <<Cursor, Data, DataNil, seed, numReaders, rdRounds>>
    /\ UNCHANGED <<tgtVars, packVars, pureVars>>

\* Second half of the Read call: the cursor update and the EOF decision.
\* ReadAll calls Read again unless it got io.EOF.
ReadReturn(r) ==
    /\ rdPc[r] = "copied"
    /\ LET res == ReadAdvance(Cursor, Data, rdN[r])
       IN /\ Cursor' = res.Cursor
          /\ rdPc' = [rdPc EXCEPT ![r] = IF res.eof THEN "eof" ELSE "call"]
    /\ rdN' = [rdN EXCEPT ![r] = 0]
    /\ UNCHANGED <<Data, DataNil, seed, numReaders, rdOut, rdRounds>>
    /\ UNCHANGED <<tgtVars, packVars, pureVars>>

\* ReadAll returns what it accumulated; the reader may read again.
ReadAllReturn(r) ==
    /\ rdPc[r] = "eof"
    /\ rdPc' = [rdPc EXCEPT ![r] = "idle"]
    /\ rdRounds' = [rdRounds EXCEPT ![r] = rdRounds[r] + 1]
    /\ rdOut' = [rdOut EXCEPT ![r] = <<>>]
    /\ UNCHANGED <<Cursor, Data, DataNil, seed, numReaders, rdN>>
    /\ UNCHANGED <<tgtVars, packVars, pureVars>>

NextCopyBuffer ==
    \/ \E r \in Readers : ReadAllStart(r)
    \/ \E r \in Readers : \E k \in 1..MaxChunk : ReadCall(r, k)
    \/ \E r \in Readers : ReadReturn(r)
    \/ \E r \in Readers : ReadAllReturn(r)

\* A caller that passes buffers of any length to Read, the empty one included.
NextReadCalls ==
    \/ \E r \in Readers : ReadAllStart(r)
    \/ \E r \in Readers : \E k \in 0..MaxChunk : ReadCall(r, k)
    \/ \E r \in Readers : ReadReturn(r)
    \/ \E r \in Readers : ReadAllReturn(r)


(***************************************************************************)
(* Target, Platform, Architecture.  A Go string is the sequence of its     *)
(* characters.                                                             *)
(***************************************************************************)
Str_windows == <<"w", "i", "n", "d", "o", "w", "s">>
Str_darwin == <<"d", "a", "r", "w", "i", "n">>
Str_linux == <<"l", "i", "n", "u", "x">>
Str_js == <<"j", "s">>
Str_386 == <<"3", "8", "6">>
Str_amd64 == <<"a", "m", "d", "6", "4">>
Str_arm == <<"a", "r", "m">>
Str_arm64 == <<"a", "r", "m", "6", "4">>
Str_wasm == <<"w", "a", "s", "m">>
Str_unknown == <<"u", "n", "k", "n", "o", "w", "n">>

\* Platform constants (iota) and Architecture constants (iota).
Windows == 0
Darwin  == 1
Linux   == 2
JS      == 3
X86   == 0
AMD64 == 1
ARM   == 2
ARM64 == 3
WASM  == 4

\* Platform.String
PlatformString(p) ==
    CASE p = Windows -> Str_windows
      [] p = Darwin  -> Str_darwin
      [] p = Linux   -> Str_linux
      [] p = JS      -> Str_js
      [] OTHER       -> Str_unknown

\* Platform.FromStr: assigns the receiver for a known token, returns it.
PlatformFromStr(p, s) ==
    CASE s = Str_windows -> Windows
      [] s = Str_darwin  -> Darwin
      [] s = Str_linux   -> Linux
      [] s = Str_js      -> JS
      [] OTHER           -> p

\* Architecture.String
ArchitectureString(a) ==
    CASE a = X86   -> Str_386
      [] a = AMD64 -> Str_amd64
      [] a = ARM   -> Str_arm
      [] a = ARM64 -> Str_arm64
      [] a = WASM  -> Str_wasm
      [] OTHER     -> Str_unknown

\* Architecture.FromStr
ArchitectureFromStr(a, s) ==
    CASE s = Str_386   -> X86
      [] s = Str_amd64 -> AMD64
      [] s = Str_arm   -> ARM
      [] s = Str_arm64 -> ARM64
      [] s = Str_wasm  -> WASM
      [] OTHER         -> a

\* strings.Split(s, sep) for a one-character separator: the pieces of s
\* between the occurrences of sep, always at least one piece.
RECURSIVE Split(_, _)
Split(s, sep) ==
    IF \A i \in 1..Len(s) : s[i] # sep
    THEN <<s>>
    ELSE LET k == CHOOSE i \in 1..Len(s) : s[i] = sep /\ \A j \in 1..(i - 1) : s[j] # sep
         IN <<SubSeq(s, 1, k - 1)>> \o Split(SubSeq(s, k + 1, Len(s)), sep)

\* Target.String: fmt.Sprintf("%s_%s", t.Platform, t.Architecture)
TargetString(t) ==
    PlatformString(t.Platform) \o <<"_">> \o ArchitectureString(t.Architecture)

\* NewTarget: both fields are taken from strings.Split(s, "/"); indexing the
\* second piece panics (index out of range) when s holds no "/".
NewTarget(s) ==
    LET parts == Split(s, "/")
    IN IF Len(parts) < 2
       THEN [panic |-> TRUE, Platform |-> PlatformFromStr(0, parts[1]), Architecture |-> 0]
       ELSE [panic |-> FALSE,
             Platform |-> PlatformFromStr(0, parts[1]),
             Architecture |-> ArchitectureFromStr(0, parts[2])]

\* The "platform/arch" spelling NewTarget is called with in DefaultTargets.
SlashString(t) ==
    PlatformString(t.Platform) \o <<"/">> \o ArchitectureString(t.Architecture)

\* Target.Ext
Ext(t) ==
    CASE t.Platform = Windows -> <<".", "e", "x", "e">>
      [] t.Platform = JS      -> <<".", "w", "a", "s", "m">>
      [] OTHER                -> <<>>

Target(p, a) == [Platform |-> p, Architecture |-> a]

\* DefaultTargets, as the Target values NewTarget yields for its nine strings.
DefaultTargets ==
    { Target(Windows, X86), Target(Windows, AMD64), Target(Windows, ARM),
      Target(Darwin, AMD64),
      Target(Linux, X86), Target(Linux, AMD64), Target(Linux, ARM), Target(Linux, ARM64),
      Target(JS, WASM) }

\* Every pair of a declared Platform and a declared Architecture.
AllTargets == { Target(p, a) : p \in Windows..JS, a \in X86..WASM }

\* Tokens a caller may write on either side of the "/".
PlatformTokens == {Str_windows, Str_darwin, Str_linux, Str_js, Str_unknown, <<>>}
ArchTokens     == {Str_386, Str_amd64, Str_arm, Str_arm64, Str_wasm, Str_unknown, <<>>}
InputStrings ==
    { p \o <<"/">> \o a : p \in PlatformTokens, a \in ArchTokens }
    \cup { p \o <<"/">> \o a \o <<"/">> \o a : p \in {Str_linux}, a \in {Str_arm} }
    \cup PlatformTokens

NoTarget == [panic |-> FALSE, Platform |-> 0, Architecture |-> 0]

InitTarget ==
    /\ parsed = NoTarget
    /\ \/ /\ tgtPc = "target"
          /\ tgt \in AllTargets
          /\ str = <<>>
       \/ /\ tgtPc = "input"
          /\ tgt = Target(0, 0)
          /\ str \in InputStrings

\* t.String()
Format ==
    /\ tgtPc = "target"
    /\ str' = TargetString(tgt)
    /\ tgtPc' = "formatted"
    /\ UNCHANGED <<tgt, parsed>>
    /\ UNCHANGED <<cbVars, packVars, pureVars>>

\* NewTarget(t.String()): parse what Format produced.
ParseFormatted ==
    /\ tgtPc = "formatted"
    /\ parsed' = NewTarget(str)
    /\ tgtPc' = "roundtrip"
    /\ UNCHANGED <<tgt, str>>
    /\ UNCHANGED <<cbVars, packVars, pureVars>>

\* NewTarget(s) on a caller's string.
ParseInput ==
    /\ tgtPc = "input"
    /\ parsed' = NewTarget(str)
    /\ tgtPc' = "parsed"
    /\ UNCHANGED <<tgt, str>>
    /\ UNCHANGED <<cbVars, packVars, pureVars>>

NextTarget ==
    \/ Format
    \/ ParseFormatted
    \/ ParseInput

(***************************************************************************)
(* Packer.Pack and Packer.Compile                                          *)
(***************************************************************************)
Tasks == 1..MaxTargets

\* The targets a caller asks for in this model.
TargetChoices ==
    { Target(Windows, X86), Target(Windows, AMD64), Target(Linux, AMD64) }

\* filepath.Join(sandbox, target.String()): one directory per target name.
Sandbox(i) == TargetString(Targets[i])

SandboxNames == { TargetString(t) : t \in TargetChoices }

\* The goroutine of target i has been started and has not finished.
Running(i) == taskPc[i] \notin {"none", "Done", "Failed"}

NilError == [kind |-> "nil", errs |-> <<>>]

\* MultiError.FromChan: append every error received from the closed channel.
RECURSIVE FromChan(_, _)
FromChan(me, ch) ==
    IF ch = <<>> THEN me ELSE FromChan(Append(me, Head(ch)), Tail(ch))

\* MultiError.IsEmpty
IsEmpty(me) == Len(me) = 0

\* What the path in p.Info.Root may name on the file system; "" is the empty
\* string, which names nothing (os.Lstat("") fails).
RootChoices == {"dir", "file", "missing", ""}

\* p.Info.Pkg as the caller sets it: empty, the name of a directory under the
\* root, a name no directory under the root has.
PkgChoices == {"", "sub", "nosuch"}

\* The Packer as main builds it (zero MetaData, an existing project
\* directory, no package) and the state common to every run.
InitPackState ==
    /\ hasICO = supplied
    /\ Icon = supplied
    /\ dist = [k \in Tasks |-> {}]
    /\ printed = FALSE
    /\ exitCode = -1
    /\ packPc = "Load"
    /\ packErr = "none"
    /\ packWg = 0
    /\ bidx = 1
    /\ bundlePc = [k \in Tasks |-> "none"]
    /\ bundleRes = [k \in Tasks |-> "none"]
    /\ compilePc = "Idle"
    /\ compileRet = NilError
    /\ idx = 1
    /\ wg = 0
    /\ errs = <<>>
    /\ taskPc = [i \in Tasks |-> "none"]
    /\ taskHdr = [i \in Tasks |-> <<>>]
    /\ Artifacts = <<>>
    /\ logged = {}
    /\ sandboxFiles = [d \in SandboxNames |-> {}]
    /\ iconFile = "absent"

\* Runs on an existing project directory in which the environment may fail.
InitPack ==
    /\ Targets \in UNION { [1..n -> TargetChoices] : n \in 0..MaxTargets }
    /\ Root = "dir"
    /\ Pkg = ""
    /\ supplied = FALSE
    /\ iconPng \in BOOLEAN
    /\ defaultIcon = FALSE
    /\ faults = 0
    /\ InitPackState

\* Runs on any root, package and metadata; the only failures are those the
\* inputs cause.
InitPackInputs ==
    /\ Targets \in UNION { [1..n -> TargetChoices] : n \in 0..MaxTargets }
    /\ Root \in RootChoices
    /\ Pkg \in PkgChoices
    /\ supplied \in BOOLEAN
    /\ iconPng \in BOOLEAN
    /\ defaultIcon \in BOOLEAN
    /\ faults = MaxFaults
    /\ InitPackState

\* ---- Pack -------------------------------------------------------------

\* Load walks the root (Finder.Find) for every asset the caller left nil.
LoadWalks == ~supplied

\* Finder.Find("icon.png") returns a path.
IconFound == Root = "dir" /\ iconPng

\* md.Icon after the icon step of Load: the caller's image, the decoded
\* icon.png, or the decoded default image when there is one.
LoadIcon(icon, png, default) == icon \/ png \/ default

\* md.Windows.ICO after Load: the caller's stream, or the encoding of md.Icon.
LoadICO(ico, icon) == ico \/ icon

\* p.MetaData.Load(p.Info.Root): an error ends Pack, otherwise Compile is
\* called.  Walking a root that does not exist is an error; reading or
\* decoding a file may fail.
PackLoad ==
    /\ packPc = "Load"
    /\ \/ /\ packPc' = "Returned"
          /\ packErr' = "loading metadata"
          /\ UNCHANGED <<compilePc, Icon, hasICO>>
       \/ /\ ~(LoadWalks /\ Root \in {"missing", ""})
          /\ Icon' = LoadIcon(Icon, IconFound, defaultIcon)
          /\ hasICO' = LoadICO(hasICO, Icon')
          /\ packPc' = "Compile"
          /\ compilePc' = "Resolve"
          /\ UNCHANGED packErr
    /\ UNCHANGED <<Targets, packWg, bidx, bundlePc, bundleRes, compileRet, idx, wg,
                   errs, taskPc, taskHdr, Artifacts, logged, sandboxFiles, iconFile, faults>>
    /\ UNCHANGED <<inVars, Pkg, dist, printed, exitCode>>
    /\ UNCHANGED <<cbVars, tgtVars, pureVars>>

\* Lines 245-251: an error of Compile ends Pack, and so does an empty
\* artifact list; otherwise the bundlers are dispatched.
PackAfterCompile ==
    /\ packPc = "Compile"
    /\ compilePc = "Returned"
    /\ IF compileRet.kind # "nil"
       THEN packPc' = "Returned" /\ packErr' = "compiling"
       ELSE IF Len(Artifacts) = 0
            THEN packPc' = "Returned" /\ packErr' = "no artifacts to pack"
            ELSE packPc' = "Dispatch" /\ UNCHANGED packErr
    /\ UNCHANGED <<Targets, hasICO, packWg, bidx, bundlePc, bundleRes, compilePc, compileRet,
                   idx, wg, errs, taskPc, taskHdr, Artifacts, logged, sandboxFiles, iconFile, faults>>
    /\ UNCHANGED <<inVars, Pkg, Icon, dist, printed, exitCode>>
    /\ UNCHANGED <<cbVars, tgtVars, pureVars>>

\* Lines 253-259: wg.Add(1) and go func() for the next artifact.
PackDispatch ==
    /\ packPc = "Dispatch"
    /\ bidx <= Len(Artifacts)
    /\ packWg' = packWg + 1
    /\ bundlePc' = [bundlePc EXCEPT ![bidx] = "run"]
    /\ bidx' = bidx + 1
    /\ packPc' = IF bidx = Len(Artifacts) THEN "Wait" ELSE "Dispatch"
    /\ UNCHANGED <<Targets, hasICO, packErr, bundleRes, compilePc, compileRet, idx, wg, errs,
                   taskPc, taskHdr, Artifacts, logged, sandboxFiles, iconFile, faults>>
    /\ UNCHANGED <<inVars, Pkg, Icon, dist, printed, exitCode>>
    /\ UNCHANGED <<cbVars, tgtVars, pureVars>>

\* bundleMacOS returning nil: the .app tree and the disk image are in dest.
bundleMacOS == {"app", "dmg"}

\* bundleWindows returning nil: it opened the PE binary and the icon and
\* appended a section to the value in memory; no file is written.
bundleWindows == {}

\* bundleLinux: dest/<base name of the binary> holds the binary.
bundleLinux == {"binary"}

\* The Linux case of the switch: only a warning is printed, the call of
\* bundleLinux is commented out.
LinuxCase == {}

\* Lines 260-288: the bundler goroutine of artifact k.  Darwin and Windows
\* artifacts go to their bundler, whose error is printed; a Linux artifact
\* only prints "warning: bundle ignored"; any other platform matches no case.
Bundle(k) ==
    /\ bundlePc[k] = "run"
    /\ LET platform == Artifacts[k].Target.Platform
       IN \/ /\ platform \in {Darwin, Windows}
             /\ \E ok \in BOOLEAN :
                  /\ bundleRes' = [bundleRes EXCEPT ![k] = IF ok THEN "ok" ELSE "failed"]
                  /\ dist' = [dist EXCEPT ![k] =
                                 IF ~ok THEN {}
                                 ELSE IF platform = Darwin THEN bundleMacOS
                                 ELSE bundleWindows]
          \/ /\ platform = Linux
             /\ bundleRes' = [bundleRes EXCEPT ![k] = "ignored"]
             /\ dist' = [dist EXCEPT ![k] = LinuxCase]
          \/ /\ platform \notin {Darwin, Windows, Linux}
             /\ bundleRes' = [bundleRes EXCEPT ![k] = "skipped"]
             /\ UNCHANGED dist
    /\ bundlePc' = [bundlePc EXCEPT ![k] = "done"]
    /\ packWg' = packWg - 1
    /\ UNCHANGED <<Targets, hasICO, packPc, packErr, bidx, compilePc, compileRet, idx, wg,
                   errs, taskPc, taskHdr, Artifacts, logged, sandboxFiles, iconFile, faults>>
    /\ UNCHANGED <<inVars, Pkg, Icon, printed, exitCode>>
    /\ UNCHANGED <<cbVars, tgtVars, pureVars>>

\* A wait that does not block.
BundlersDoneEarly(n) == TRUE

\* Line 291: wg.Wait() returns when the counter of the bundlers is zero.
BundlersDone(n) == n = 0

\* Lines 291-292: wg.Wait() and return nil.
PackReturn ==
    /\ packPc = "Wait"
    /\ BundlersDone(packWg)
    /\ packPc' = "Returned"
    /\ packErr' = "nil"
    /\ UNCHANGED <<Targets, hasICO, packWg, bidx, bundlePc, bundleRes, compilePc, compileRet,
                   idx, wg, errs, taskPc, taskHdr, Artifacts, logged, sandboxFiles, iconFile, faults>>
    /\ UNCHANGED <<inVars, Pkg, Icon, dist, printed, exitCode>>
    /\ UNCHANGED <<cbVars, tgtVars, pureVars>>

\* main, lines 88-94: the error of Pack is printed with "error: %v"; main
\* then returns, which ends the process with status 0.
MainReturn ==
    /\ packPc = "Returned"
    /\ exitCode = -1
    /\ printed' = (packErr # "nil")
    /\ exitCode' = 0
    /\ UNCHANGED <<Targets, hasICO, packPc, packErr, packWg, bidx, bundlePc, bundleRes,
                   compilePc, compileRet, idx, wg, errs, taskPc, taskHdr, Artifacts,
                   logged, sandboxFiles, iconFile, faults>>
    /\ UNCHANGED <<inVars, Pkg, Icon, dist>>
    /\ UNCHANGED <<cbVars, tgtVars, pureVars>>

\* ---- Compile ----------------------------------------------------------

\* An operation of the environment (file system, compiler) fails; the number
\* of such failures in one run is bounded.
EnvFault == faults < MaxFaults /\ faults' = faults + 1

\* Lines 314-328: a package name is looked up among the directories under
\* the root and replaced by its relative path, "" when there is none; without
\* a package name the root is the package.  The root itself is only made
\* absolute (filepath.Abs), it is not looked at.
ResolvePkg(root, pkg) ==
    IF pkg # ""
    THEN IF root = "dir" /\ pkg = "sub" THEN "./sub" ELSE ""
    ELSE "root"

\* Lines 303-308: an empty root becomes the working directory (os.Getwd),
\* which is a directory.
DefaultRoot(root) == IF root = "" THEN "dir" ELSE root

\* Lines 303-328: resolve the root and the package; a failure returns at once.
CompileResolve ==
    /\ compilePc = "Resolve"
    /\ \/ /\ compilePc' = "Returned"
          /\ compileRet' = [kind |-> "input", errs |-> <<>>]
          /\ UNCHANGED <<Root, Pkg>>
       \/ /\ Root' = DefaultRoot(Root)
          /\ ResolvePkg(Root', Pkg) # ""
          /\ Pkg' = ResolvePkg(Root', Pkg)
          /\ compilePc' = IF Len(Targets) = 0 THEN "Wait" ELSE "RemoveAll"
          /\ UNCHANGED compileRet
    /\ UNCHANGED <<Targets, hasICO, packPc, packErr, packWg, bidx, bundlePc, bundleRes, idx, wg,
                   errs, taskPc, taskHdr, Artifacts, logged, sandboxFiles, iconFile, faults>>
    /\ UNCHANGED <<supplied, iconPng, defaultIcon, Icon, dist, printed, exitCode>>
    /\ UNCHANGED <<cbVars, tgtVars, pureVars>>

\* Lines 351-353: os.RemoveAll(sandbox); its error is only logged.
CompileRemoveAll ==
    /\ compilePc = "RemoveAll"
    /\ \/ /\ sandboxFiles' = [sandboxFiles EXCEPT ![Sandbox(idx)] = {}]
          /\ UNCHANGED <<logged, faults>>
       \/ /\ logged' = logged \cup {<<idx, "cleaning sandbox">>}
          /\ UNCHANGED sandboxFiles
          /\ EnvFault
    /\ compilePc' = "MkdirAll"
    /\ UNCHANGED <<Targets, hasICO, packPc, packErr, packWg, bidx, bundlePc, bundleRes,
                   compileRet, idx, wg, errs, taskPc, taskHdr, Artifacts, iconFile>>
    /\ UNCHANGED <<inVars, Pkg, Icon, dist, printed, exitCode>>
    /\ UNCHANGED <<cbVars, tgtVars, pureVars>>

\* Lines 354-358: os.MkdirAll(sandbox, 0777), whose error is only logged,
\* then wg.Add(1) and go func() for target idx, then the next target.
CompileGo ==
    /\ compilePc = "MkdirAll"
    /\ \/ UNCHANGED <<logged, faults>>
       \/ /\ logged' = logged \cup {<<idx, "preparing sandbox">>}
          /\ EnvFault
    /\ wg' = wg + 1
    /\ taskPc' = [taskPc EXCEPT ![idx] = "Copy"]
    /\ idx' = idx + 1
    /\ compilePc' = IF idx = Len(Targets) THEN "Wait" ELSE "RemoveAll"
    /\ UNCHANGED <<Targets, hasICO, packPc, packErr, packWg, bidx, bundlePc, bundleRes,
                   compileRet, errs, taskHdr, Artifacts, sandboxFiles, iconFile>>
    /\ UNCHANGED <<inVars, Pkg, Icon, dist, printed, exitCode>>
    /\ UNCHANGED <<cbVars, tgtVars, pureVars>>

\* A wait that gives up while one task is still running.
WaitDoneEarly(counter) == counter <= 1

\* wg.Wait() lets Compile go on once the counter is zero.
WaitDone(counter) == counter = 0

\* Lines 426-431: wg.Wait(), close(errs), FromChan, return.
CompileReturn ==
    /\ compilePc = "Wait"
    /\ WaitDone(wg)
    /\ LET me == FromChan(<<>>, errs)
       IN compileRet' = IF ~IsEmpty(me) THEN [kind |-> "multi", errs |-> me] ELSE NilError
    /\ compilePc' = "Returned"
    /\ UNCHANGED <<Targets, hasICO, packPc, packErr, packWg, bidx, bundlePc, bundleRes, idx, wg,
                   errs, taskPc, taskHdr, Artifacts, logged, sandboxFiles, iconFile, faults>>
    /\ UNCHANGED <<inVars, Pkg, Icon, dist, printed, exitCode>>
    /\ UNCHANGED <<cbVars, tgtVars, pureVars>>

\* ---- the goroutine of target i ------------------------------------------

\* Lines 421-423 with the deferred wg.Done(): the task's error goes to errs
\* prefixed with target.String().
Fail(i, cause) ==
    /\ errs' = Append(errs, [name |-> TargetString(Targets[i]), task |-> i, cause |-> cause])
    /\ taskPc' = [taskPc EXCEPT ![i] = "Failed"]
    /\ wg' = wg - 1

\* A resource step for every target once an ICO stream exists.
NeedsResourceAnyPlatform(i) == hasICO

\* Line 371: the resource step runs for a Windows target with an ICO stream.
NeedsResource(i) == Targets[i].Platform = Windows /\ hasICO

\* Lines 362-367: Copier.Copy(p.Info.Root, sandbox).  The walk fails on a
\* root that does not exist, and a root that is a file cannot be copied onto
\* the sandbox directory.
TaskCopy(i) ==
    /\ taskPc[i] = "Copy"
    /\ \/ /\ Root = "dir"
          /\ sandboxFiles' = [sandboxFiles EXCEPT ![Sandbox(i)] = @ \cup {"src"}]
          /\ taskPc' = [taskPc EXCEPT ![i] = IF NeedsResource(i) THEN "WriteIcon" ELSE "Build"]
          /\ UNCHANGED <<errs, wg, faults>>
       \/ /\ Fail(i, "creating sandbox")
          /\ \/ Root # "dir" /\ UNCHANGED faults
             \/ EnvFault
          /\ UNCHANGED sandboxFiles
    /\ UNCHANGED <<Targets, hasICO, packPc, packErr, packWg, bidx, bundlePc, bundleRes,
                   compilePc, compileRet, idx, taskHdr, Artifacts, logged, iconFile>>
    /\ UNCHANGED <<inVars, Pkg, Icon, dist, printed, exitCode>>
    /\ UNCHANGED <<cbVars, tgtVars, pureVars>>

\* Lines 377-381: read the ICO stream, then ioutil.WriteFile opens and
\* truncates <tmp>/gopack/icon.ico.
TaskWriteIcon(i) ==
    /\ taskPc[i] = "WriteIcon"
    /\ \/ /\ iconFile' = "truncated"
          /\ taskPc' = [taskPc EXCEPT ![i] = "WriteIconData"]
          /\ UNCHANGED <<errs, wg, faults>>
       \/ /\ Fail(i, "windows: writing icon file to temporary location")
          /\ EnvFault
          /\ UNCHANGED iconFile
    /\ UNCHANGED <<Targets, hasICO, packPc, packErr, packWg, bidx, bundlePc, bundleRes,
                   compilePc, compileRet, idx, taskHdr, Artifacts, logged, sandboxFiles>>
    /\ UNCHANGED <<inVars, Pkg, Icon, dist, printed, exitCode>>
    /\ UNCHANGED <<cbVars, tgtVars, pureVars>>

\* Line 381, continued: WriteFile writes the bytes and closes the file.
TaskWriteIconData(i) ==
    /\ taskPc[i] = "WriteIconData"
    /\ iconFile' = "written"
    /\ taskPc' = [taskPc EXCEPT ![i] = "Embed"]
    /\ UNCHANGED <<errs, wg, faults>>
    /\ UNCHANGED <<Targets, hasICO, packPc, packErr, packWg, bidx, bundlePc, bundleRes,
                   compilePc, compileRet, idx, taskHdr, Artifacts, logged, sandboxFiles>>
    /\ UNCHANGED <<inVars, Pkg, Icon, dist, printed, exitCode>>
    /\ UNCHANGED <<cbVars, tgtVars, pureVars>>

\* Lines 384-386: rsrc.Embed reads icon.ico and writes rsrc.syso into the
\* sandbox; an icon file that is not completely written cannot be decoded.
TaskEmbed(i) ==
    /\ taskPc[i] = "Embed"
    /\ \/ /\ iconFile = "written"
          /\ sandboxFiles' = [sandboxFiles EXCEPT ![Sandbox(i)] = @ \cup {"rsrc.syso"}]
          /\ taskPc' = [taskPc EXCEPT ![i] = "Build"]
          /\ UNCHANGED <<errs, wg, faults>>
       \/ /\ Fail(i, "windows: creating icon resource")
          /\ \/ iconFile # "written" /\ UNCHANGED faults
             \/ EnvFault
          /\ UNCHANGED sandboxFiles
    /\ UNCHANGED <<Targets, hasICO, packPc, packErr, packWg, bidx, bundlePc, bundleRes,
                   compilePc, compileRet, idx, taskHdr, Artifacts, logged, iconFile>>
    /\ UNCHANGED <<inVars, Pkg, Icon, dist, printed, exitCode>>
    /\ UNCHANGED <<cbVars, tgtVars, pureVars>>

\* Lines 392-399: the tree the compiler reads the package from.  The command
\* runs with cmd.Dir = sandbox and takes p.Info.Pkg as its package argument:
\* a relative path ("./sub") is resolved against the sandbox, the absolute
\* path of the root names the project root itself.
CompiledTree(pkg) == IF pkg = "root" THEN "root" ELSE "sandbox"

\* Lines 392-411: go build -o bin ... in the sandbox.
TaskBuild(i) ==
    /\ taskPc[i] = "Build"
    /\ \/ /\ sandboxFiles' = [sandboxFiles EXCEPT ![Sandbox(i)] = @ \cup {"bin"}]
          /\ taskPc' = [taskPc EXCEPT ![i] = "ReadBin"]
          /\ UNCHANGED <<errs, wg, faults>>
       \/ /\ Fail(i, "compiler")
          /\ EnvFault
          /\ UNCHANGED sandboxFiles
    /\ UNCHANGED <<Targets, hasICO, packPc, packErr, packWg, bidx, bundlePc, bundleRes,
                   compilePc, compileRet, idx, taskHdr, Artifacts, logged, iconFile>>
    /\ UNCHANGED <<inVars, Pkg, Icon, dist, printed, exitCode>>
    /\ UNCHANGED <<cbVars, tgtVars, pureVars>>

\* Lines 412-415: ioutil.ReadFile(bin); the file must still be there.
TaskReadBin(i) ==
    /\ taskPc[i] = "ReadBin"
    /\ \/ /\ "bin" \in sandboxFiles[Sandbox(i)]
          /\ taskPc' = [taskPc EXCEPT ![i] = "Append"]
          /\ UNCHANGED <<errs, wg, faults>>
       \/ /\ Fail(i, "reading binary")
          /\ \/ "bin" \notin sandboxFiles[Sandbox(i)] /\ UNCHANGED faults
             \/ EnvFault
    /\ UNCHANGED <<Targets, hasICO, packPc, packErr, packWg, bidx, bundlePc, bundleRes,
                   compilePc, compileRet, idx, taskHdr, Artifacts, logged, sandboxFiles, iconFile>>
    /\ UNCHANGED <<inVars, Pkg, Icon, dist, printed, exitCode>>
    /\ UNCHANGED <<cbVars, tgtVars, pureVars>>

\* Line 416, first half: append reads the slice p.Artifacts.
TaskAppendRead(i) ==
    /\ taskPc[i] = "Append"
    /\ taskHdr' = [taskHdr EXCEPT ![i] = Artifacts]
    /\ taskPc' = [taskPc EXCEPT ![i] = "AppendWrite"]
    /\ UNCHANGED <<Targets, hasICO, packPc, packErr, packWg, bidx, bundlePc, bundleRes,
                   compilePc, compileRet, idx, wg, errs, Artifacts, logged, sandboxFiles,
                   iconFile, faults>>
    /\ UNCHANGED <<inVars, Pkg, Icon, dist, printed, exitCode>>
    /\ UNCHANGED <<cbVars, tgtVars, pureVars>>

\* What the append of task i stores into p.Artifacts, given the slice it read.
Appended(hdr, current, artifact) == Append(hdr, artifact)

\* Line 416, second half: the grown slice is stored into p.Artifacts; the
\* task returns nil and the deferred wg.Done() runs.
TaskAppendWrite(i) ==
    /\ taskPc[i] = "AppendWrite"
    /\ Artifacts' = Appended(taskHdr[i], Artifacts, [Target |-> Targets[i], Binary |-> i])
    /\ taskHdr' = [taskHdr EXCEPT ![i] = <<>>]
    /\ taskPc' = [taskPc EXCEPT ![i] = "Done"]
    /\ wg' = wg - 1
    /\ UNCHANGED <<Targets, hasICO, packPc, packErr, packWg, bidx, bundlePc, bundleRes,
                   compilePc, compileRet, idx, errs, logged, sandboxFiles, iconFile, faults>>
    /\ UNCHANGED <<inVars, Pkg, Icon, dist, printed, exitCode>>
    /\ UNCHANGED <<cbVars, tgtVars, pureVars>>

TaskStep(i) ==
    \/ TaskCopy(i)
    \/ TaskWriteIcon(i)
    \/ TaskWriteIconData(i)
    \/ TaskEmbed(i)
    \/ TaskBuild(i)
    \/ TaskReadBin(i)
    \/ TaskAppendRead(i)
    \/ TaskAppendWrite(i)

NextPack ==
    \/ PackLoad
    \/ PackAfterCompile
    \/ PackDispatch
    \/ \E k \in Tasks : Bundle(k)
    \/ PackReturn
    \/ MainReturn
    \/ CompileResolve
    \/ CompileRemoveAll
    \/ CompileGo
    \/ CompileReturn
    \/ \E i \in Tasks : TaskStep(i)

IdlePack ==
    /\ Targets = <<>> /\ hasICO = FALSE
    /\ packPc = "Idle" /\ packErr = "none" /\ packWg = 0 /\ bidx = 1
    /\ bundlePc = [k \in Tasks |-> "none"]
    /\ bundleRes = [k \in Tasks |-> "none"]
    /\ compilePc = "Idle" /\ compileRet = NilError /\ idx = 1 /\ wg = 0 /\ errs = <<>>
    /\ taskPc = [i \in Tasks |-> "none"]
    /\ taskHdr = [i \in Tasks |-> <<>>]
    /\ Artifacts = <<>>
    /\ logged = {}
    /\ sandboxFiles = [d \in SandboxNames |-> {}]
    /\ iconFile = "absent"
    /\ faults = 0
    /\ Root = "dir" /\ Pkg = "" /\ supplied = FALSE /\ iconPng = FALSE
    /\ defaultIcon = FALSE /\ Icon = FALSE
    /\ dist = [k \in Tasks |-> {}]
    /\ printed = FALSE /\ exitCode = -1

(***************************************************************************)
(* ico.FromPNG                                                             *)
(***************************************************************************)

\* The size ladder of line 40.
sizes == <<256, 128, 64, 48, 32, 16>>

\* v as n bytes, least significant first (binary.LittleEndian).
LittleEndian(v, n) == [b \in 1..n |-> (v \div (256 ^ (b - 1))) % 256]

\* Lines 69-72: the size as the directory stores it.
ImgSize(size) == IF size >= 256 THEN 0 ELSE size

\* Descriptor with every field but size and offset fixed differently.
NewDescriptorPalette(imgSize, n) ==
    [width |-> imgSize % 256, height |-> imgSize % 256,
     planes |-> 0, bpp |-> 8, size |-> n, offset |-> 0]

\* Lines 77-83: the Descriptor of an image whose payload has n bytes; the
\* offset is the zero value.
NewDescriptor(imgSize, n) ==
    [width |-> imgSize % 256, height |-> imgSize % 256,
     planes |-> 1, bpp |-> 32, size |-> n, offset |-> 0]

\* binary.Write of a Header: the blank field, imageType, imageCount.
WriteHeader(h) ==
    LittleEndian(0, 2) \o LittleEndian(h.imageType, 2) \o LittleEndian(h.imageCount, 2)

\* binary.Write of a Descriptor, its two blank bytes included.
WriteDescriptor(d) ==
    LittleEndian(d.width, 1) \o LittleEndian(d.height, 1)
    \o LittleEndian(0, 1) \o LittleEndian(0, 1)
    \o LittleEndian(d.planes, 2) \o LittleEndian(d.bpp, 2)
    \o LittleEndian(d.size, 4) \o LittleEndian(d.offset, 4)

\* Line 104: where the first payload starts.  size and offset are uint32;
\* the six PNG payloads of at most 256x256 pixels stay far below 2^32 bytes,
\* so the sums are written without the modulus.
FirstOffset == 6 + 16 * Len(sizes)

\* An offset that does not accumulate: each payload placed after the directory.
NextOffsetRestart(off, size) == FirstOffset + size

\* Line 111: offset += icon.Header.size
NextOffset(off, size) == off + size

\* The PNG encoding of image k, n bytes long; the bytes tell the images apart.
Payload(k, n) == [b \in 1..n |-> k]

InitFromPNG ==
    /\ icoPc = "open"
    /\ decodable \in BOOLEAN
    /\ icons = <<>>
    /\ icoI = 1
    /\ offset = 0
    /\ outfile \in {<<>>, <<255, 255, 255>>}

\* Lines 42-51: open and decode the source.
FromPNGOpen ==
    /\ icoPc = "open"
    /\ icoPc' = IF decodable THEN "scale" ELSE "error"
    /\ UNCHANGED <<decodable, icons, icoI, offset, outfile>>
    /\ UNCHANGED <<cbVars, tgtVars, packVars, rsrcVars, fsVars, auxVars>>

\* Lines 55-87, one iteration: scale to sizes[icoI], encode as PNG, append
\* the Container; an encoding error returns.
FromPNGScale ==
    /\ icoPc = "scale"
    /\ \/ /\ \E n \in 1..MaxPayload :
                icons' = Append(icons, [Header |-> NewDescriptor(ImgSize(sizes[icoI]), n),
                                        Data |-> Payload(icoI, n)])
          /\ icoI' = IF icoI = Len(sizes) THEN 1 ELSE icoI + 1
          /\ icoPc' = IF icoI = Len(sizes) THEN "create" ELSE "scale"
       \/ /\ icoPc' = "error"
          /\ UNCHANGED <<icons, icoI>>
    /\ UNCHANGED <<decodable, offset, outfile>>
    /\ UNCHANGED <<cbVars, tgtVars, packVars, rsrcVars, fsVars, auxVars>>

\* Lines 89-104: os.Create truncates iconfile, the Header is written and the
\* offset is set to the end of the directory.
FromPNGCreate ==
    /\ icoPc = "create"
    /\ \/ /\ outfile' = WriteHeader([imageType |-> 1, imageCount |-> Len(sizes) % (2 ^ 16)])
          /\ offset' = FirstOffset
          /\ icoPc' = "entries"
       \/ /\ icoPc' = "error"
          /\ UNCHANGED <<outfile, offset>>
    /\ UNCHANGED <<decodable, icons, icoI>>
    /\ UNCHANGED <<cbVars, tgtVars, packVars, rsrcVars, fsVars, auxVars>>

\* Lines 105-112, one iteration: the copy of icons[icoI] gets the offset and
\* its Header is written; the offset moves on by the payload size.
FromPNGEntry ==
    /\ icoPc = "entries"
    /\ \/ /\ outfile' = outfile \o WriteDescriptor([icons[icoI].Header EXCEPT !.offset = offset])
          /\ offset' = NextOffset(offset, icons[icoI].Header.size)
          /\ icoI' = IF icoI = Len(icons) THEN 1 ELSE icoI + 1
          /\ icoPc' = IF icoI = Len(icons) THEN "data" ELSE "entries"
       \/ /\ icoPc' = "error"
          /\ UNCHANGED <<outfile, offset, icoI>>
    /\ UNCHANGED <<decodable, icons>>
    /\ UNCHANGED <<cbVars, tgtVars, packVars, rsrcVars, fsVars, auxVars>>

\* Lines 113-119, one iteration: the payload of icons[icoI] is written;
\* after the last one FromPNG returns nil.
FromPNGData ==
    /\ icoPc = "data"
    /\ \/ /\ outfile' = outfile \o icons[icoI].Data
          /\ icoI' = IF icoI = Len(icons) THEN 1 ELSE icoI + 1
          /\ icoPc' = IF icoI = Len(icons) THEN "done" ELSE "data"
       \/ /\ icoPc' = "error"
          /\ UNCHANGED <<outfile, icoI>>
    /\ UNCHANGED <<decodable, icons, offset>>
    /\ UNCHANGED <<cbVars, tgtVars, packVars, rsrcVars, fsVars, auxVars>>

NextFromPNG ==
    \/ FromPNGOpen
    \/ FromPNGScale
    \/ FromPNGCreate
    \/ FromPNGEntry
    \/ FromPNGData

IdleFromPNG ==
    /\ icoPc = "idle" /\ decodable = FALSE /\ icons = <<>> /\ icoI = 1
    /\ offset = 0 /\ outfile = <<>>

(***************************************************************************)
(* rsrc.Embed                                                              *)
(***************************************************************************)
Runs == 1..MaxRuns

\* The largest image count an ICONDIR holds (Count is a uint16).
MaxCount == 65535

\* Image counts of the ICO files in this model: ordinary ones and the largest.
ImageCounts == (0..MaxImages) \cup {MaxCount}

\* Line 100 executed n times on a uint16.
Advance(v, n) == (v + n) % (2 ^ 16)

\* The ID the j-th call of newid returns when the variable held v before the
\* first of them.
NewID(v, j) == Advance(v, j)

InitEmbed ==
    /\ embPc = [r \in Runs |-> "start"]
    /\ embIcons \in [Runs -> SeqsUpTo(ImageCounts, MaxIcons)]
    /\ embI = [r \in Runs |-> 1]
    /\ id = [r \in Runs |-> 0]
    /\ resources = [r \in Runs |-> <<>>]
    /\ fopen = [r \in Runs |-> {}]

\* Lines 16-18: idGenerator() gives the run a fresh id variable set to 0.
EmbedStart(r) ==
    /\ embPc[r] = "start"
    /\ id' = [id EXCEPT ![r] = 0]
    /\ embPc' = [embPc EXCEPT ![r] = IF Len(embIcons[r]) = 0 THEN "write" ELSE "icons"]
    /\ UNCHANGED <<embIcons, embI, resources, fopen>>
    /\ UNCHANGED <<cbVars, tgtVars, packVars, icoVars, fsVars, auxVars>>

\* Lines 19-23 and 48-70, one icon argument with n images: the file is
\* opened, each image is registered as RT_ICON under a new ID with a section
\* reader over the file as its content, then the group as RT_GROUP_ICON under
\* the next ID; an icon without images registers nothing.  The record keeps
\* the value of id before the first call of newid: the IDs of the images are
\* NewID(first, 1..n), that of the group is NewID(first, n + 1).  A file that
\* cannot be opened or decoded ends Embed.
AddIcon(r) ==
    /\ embPc[r] = "icons"
    /\ \/ /\ LET n == embIcons[r][embI[r]]
             IN IF n > 0
                THEN /\ resources' = [resources EXCEPT ![r] =
                            Append(@, [first |-> id[r], icons |-> n,
                                       Count |-> n % (2 ^ 16), Entries |-> n,
                                       file |-> embI[r]])]
                     /\ id' = [id EXCEPT ![r] = Advance(@, n + 1)]
                ELSE UNCHANGED <<resources, id>>
          /\ fopen' = [fopen EXCEPT ![r] = @ \cup {embI[r]}]
          /\ embPc' = [embPc EXCEPT ![r] = "return"]
       \/ /\ embPc' = [embPc EXCEPT ![r] = "error"]
          /\ UNCHANGED <<resources, id, fopen>>
    /\ UNCHANGED <<embIcons, embI>>
    /\ UNCHANGED <<cbVars, tgtVars, packVars, icoVars, fsVars, auxVars>>

\* Lines 53 and 72: addIcon returns nil and its deferred f.Close() runs; Embed
\* goes on to the next icon argument, or to the output.
AddIconReturn(r) ==
    /\ embPc[r] = "return"
    /\ fopen' = [fopen EXCEPT ![r] = @ \ {embI[r]}]
    /\ embI' = [embI EXCEPT ![r] = @ + 1]
    /\ embPc' = [embPc EXCEPT ![r] = IF embI[r] = Len(embIcons[r]) THEN "write" ELSE "icons"]
    /\ UNCHANGED <<embIcons, id, resources>>
    /\ UNCHANGED <<cbVars, tgtVars, packVars, icoVars, fsVars, auxVars>>

\* The section readers write copies from: every registered RT_ICON slice reads
\* the file of its record.
SlicesReadable(r) ==
    \A q \in 1..Len(resources[r]) : resources[r][q].file \in fopen[r]

\* Lines 24-30 and 75-95: Freeze, create the output file, write the object.
\* write copies every registered slice from its file; reading a closed file
\* is an error (w.Err), and so is a failure of os.Create or of the output.
EmbedWrite(r) ==
    /\ embPc[r] = "write"
    /\ \E ok \in BOOLEAN :
          /\ ok => SlicesReadable(r)
          /\ embPc' = [embPc EXCEPT ![r] = IF ok THEN "done" ELSE "error"]
    /\ UNCHANGED <<embIcons, embI, id, resources, fopen>>
    /\ UNCHANGED <<cbVars, tgtVars, packVars, icoVars, fsVars, auxVars>>

NextEmbed ==
    \/ \E r \in Runs : EmbedStart(r)
    \/ \E r \in Runs : AddIcon(r)
    \/ \E r \in Runs : AddIconReturn(r)
    \/ \E r \in Runs : EmbedWrite(r)

IdleEmbed ==
    /\ embPc = [r \in Runs |-> "idle"]
    /\ embIcons = [r \in Runs |-> <<>>]
    /\ embI = [r \in Runs |-> 1]
    /\ id = [r \in Runs |-> 0]
    /\ resources = [r \in Runs |-> <<>>]
    /\ fopen = [r \in Runs |-> {}]

(***************************************************************************)
(* util.Finder and util.Copier over a project tree.  A path is the         *)
(* sequence of its characters.                                             *)
(***************************************************************************)
N_git == <<".", "g", "i", "t">>
N_gitignore == <<".", "g", "i", "t", "i", "g", "n", "o", "r", "e">>
N_cmd == <<"c", "m", "d">>
N_config == <<"c", "o", "n", "f", "i", "g">>
N_dist == <<"d", "i", "s", "t">>
N_distance_go == <<"d", "i", "s", "t", "a", "n", "c", "e", ".", "g", "o">>
N_icon_png == <<"i", "c", "o", "n", ".", "p", "n", "g">>
N_main_go == <<"m", "a", "i", "n", ".", "g", "o">>

\* The files and directories a project tree of this model is made of, by
\* their names below the root, in the order filepath.Walk visits them
\* (each directory before its content, the names of a directory sorted).
Universe ==
    << [path |-> <<>>, dir |-> TRUE],
       [path |-> <<N_git>>, dir |-> TRUE],
       [path |-> <<N_git, N_config>>, dir |-> FALSE],
       [path |-> <<N_gitignore>>, dir |-> FALSE],
       [path |-> <<N_cmd>>, dir |-> TRUE],
       [path |-> <<N_cmd, N_icon_png>>, dir |-> FALSE],
       [path |-> <<N_cmd, N_main_go>>, dir |-> FALSE],
       [path |-> <<N_dist>>, dir |-> TRUE],
       [path |-> <<N_dist, N_icon_png>>, dir |-> FALSE],
       [path |-> <<N_distance_go>>, dir |-> FALSE],
       [path |-> <<N_icon_png>>, dir |-> FALSE],
       [path |-> <<N_main_go>>, dir |-> FALSE] >>

\* The trees: the root with at most MaxEntries entries below it, each inside
\* a directory of the tree.
Trees ==
    { t \in SUBSET (2..Len(Universe)) :
        /\ Cardinality(t) <= MaxEntries
        /\ \A e \in t :
              \/ Len(Universe[e].path) = 1
              \/ \E d \in t : /\ Universe[d].dir
                              /\ Universe[d].path = SubSeq(Universe[e].path, 1,
                                                           Len(Universe[e].path) - 1) }

\* The order in which filepath.Walk visits the tree t: the root first.
WalkOrder(t) ==
    LET Present(e) == e = 1 \/ e \in t
    IN SelectSeq([e \in 1..Len(Universe) |-> e], Present)

\* Where a project may lie: /w, and /dist/w inside a directory named dist.
RootPaths == { <<"/", "w">>, <<"/", "d", "i", "s", "t", "/", "w">> }

\* filepath.Join(root, names...) for a clean root.
RECURSIVE Join(_, _)
Join(root, comps) ==
    IF comps = <<>> THEN root
    ELSE Join(root \o <<"/">> \o Head(comps), Tail(comps))

\* os.FileInfo.Name(): the last element of the path.
Name(root, e) ==
    IF e.path = <<>>
    THEN LET parts == Split(root, "/") IN parts[Len(parts)]
    ELSE e.path[Len(e.path)]

\* strings.HasPrefix / strings.TrimPrefix
HasPrefix(s, prefix) ==
    Len(prefix) <= Len(s) /\ SubSeq(s, 1, Len(prefix)) = prefix
TrimPrefix(s, prefix) ==
    IF HasPrefix(s, prefix) THEN SubSeq(s, Len(prefix) + 1, Len(s)) ELSE s

\* strings.Contains
Contains(s, substr) ==
    \E k \in 0..(Len(s) - Len(substr)) : SubSeq(s, k + 1, k + Len(substr)) = substr

\* filepath.Clean on the paths of this model, which hold no doubled
\* separator and no dot element: only the empty path changes, to ".".
Clean(q) == IF q = <<>> THEN <<".">> ELSE q

\* ---- Finder.Find ---------------------------------------------------------

FindNames == {N_icon_png, N_main_go, N_cmd}

InitFinder ==
    /\ fsPc = "find"
    /\ tree \in Trees
    /\ from \in RootPaths
    /\ name \in FindNames
    /\ IsDir \in BOOLEAN
    /\ Rel \in BOOLEAN
    /\ walkPos = 1
    /\ found = <<>>
    /\ findRet = <<>>
    /\ copied = {}

\* Lines 28-39, the callback on entry e: found after the visit.
Visit(old, e, root, wanted, isDir, rel) ==
    LET q == Join(root, e.path)
    IN IF e.dir = isDir /\ Name(root, e) = wanted
       THEN IF rel THEN Clean(TrimPrefix(q, root)) ELSE q
       ELSE old

\* filepath.Walk calls the callback on the next entry; an error it is given
\* (an unreadable directory) is returned and ends Find with an error.
FindVisit ==
    /\ fsPc = "find"
    /\ LET order == WalkOrder(tree)
       IN \/ /\ found' = Visit(found, Universe[order[walkPos]], from, name, IsDir, Rel)
             /\ walkPos' = walkPos + 1
             /\ fsPc' = IF walkPos = Len(order) THEN "walked" ELSE "find"
          \/ /\ fsPc' = "error"
             /\ UNCHANGED <<found, walkPos>>
    /\ UNCHANGED <<tree, from, name, IsDir, Rel, findRet, copied>>
    /\ UNCHANGED <<cbVars, tgtVars, packVars, icoVars, rsrcVars, auxVars>>

\* Lines 43-56: "" when nothing was found; the absolute path (the paths of
\* the walk are absolute already); or the relative path, given a leading "."
\* unless it starts with one.
FindResult(f, rel) ==
    IF f = <<>> THEN <<>>
    ELSE IF ~rel THEN f
    ELSE IF f[1] # "." THEN <<".">> \o f ELSE f

FindReturn ==
    /\ fsPc = "walked"
    /\ findRet' = FindResult(found, Rel)
    /\ fsPc' = "done"
    /\ UNCHANGED <<tree, from, name, IsDir, Rel, walkPos, found, copied>>
    /\ UNCHANGED <<cbVars, tgtVars, packVars, icoVars, rsrcVars, auxVars>>

NextFinder ==
    \/ FindVisit
    \/ FindReturn

\* ---- Copier.Copy (Recursive) ---------------------------------------------

\* The Ignore patterns Compile passes.
Ignore == <<N_dist, N_git>>

\* Copier.ignore: the path contains one of the patterns.
ignore(q) == \E k \in 1..Len(Ignore) : Contains(q, Ignore[k])

InitCopier ==
    /\ fsPc = "copy"
    /\ tree \in Trees
    /\ from \in RootPaths
    /\ name = <<>>
    /\ IsDir = FALSE
    /\ Rel = FALSE
    /\ walkPos = 1
    /\ found = <<>>
    /\ findRet = <<>>
    /\ copied = {}

\* Lines 79-94, the callback on the next entry: an ignored path is passed
\* over; otherwise the directory is created, or the file copied, at
\* to/<path below from>.  An error of the walk or of cp ends Copy.
CopyVisit ==
    /\ fsPc = "copy"
    /\ LET order == WalkOrder(tree)
           q == Join(from, Universe[order[walkPos]].path)
       IN \/ /\ copied' = IF ignore(q) THEN copied
                          ELSE copied \cup {TrimPrefix(q, from)}
             /\ walkPos' = walkPos + 1
             /\ fsPc' = IF walkPos = Len(order) THEN "copied" ELSE "copy"
          \/ /\ fsPc' = "error"
             /\ UNCHANGED <<copied, walkPos>>
    /\ UNCHANGED <<tree, from, name, IsDir, Rel, found, findRet>>
    /\ UNCHANGED <<cbVars, tgtVars, packVars, icoVars, rsrcVars, auxVars>>

NextCopier == CopyVisit

(***************************************************************************)
(* The environment of the compiler command (Compile, lines 399-404).  An   *)
(* entry is the character sequence "KEY=value".                            *)
(***************************************************************************)
K_GOOS   == <<"G", "O", "O", "S">>
K_GOARCH == <<"G", "O", "A", "R", "C", "H">>
K_HOME   == <<"H", "O", "M", "E">>

\* fmt.Sprintf("%s=%s", key, value)
Entry(key, value) == key \o <<"=">> \o value

\* Entries the environment of the parent process may hold.
ParentEntries ==
    { Entry(K_GOOS, Str_linux), Entry(K_GOOS, Str_windows),
      Entry(K_GOARCH, Str_amd64), Entry(K_GOARCH, Str_386),
      Entry(K_HOME, <<"/">>) }

\* The value the started process sees for key: os/exec keeps, of the entries
\* of cmd.Env with the same key, the last one; <<>> when there is none.
Effective(env, key) ==
    LET at == { k \in 1..Len(env) : HasPrefix(env[k], key \o <<"=">>) }
    IN IF at = {} THEN <<>>
       ELSE TrimPrefix(env[CHOOSE k \in at : \A j \in at : j <= k], key \o <<"=">>)

InitEnv ==
    /\ envPc = "GOOS"
    /\ envTarget \in TargetChoices
    /\ environ \in SeqsUpTo(ParentEntries, MaxEnv)
    /\ cmdEnv = <<>>

\* Line 400: cmd.Env = append(cmd.Env, fmt.Sprintf("GOOS=%s", platform))
EnvGOOS ==
    /\ envPc = "GOOS"
    /\ cmdEnv' = Append(cmdEnv, Entry(K_GOOS, PlatformString(envTarget.Platform)))
    /\ envPc' = "GOARCH"
    /\ UNCHANGED <<envTarget, environ>>
    /\ UNCHANGED <<cbVars, tgtVars, packVars, icoVars, rsrcVars, fsVars, dmgVars, cpVars>>

\* Line 401: cmd.Env = append(cmd.Env, fmt.Sprintf("GOARCH=%s", arch))
EnvGOARCH ==
    /\ envPc = "GOARCH"
    /\ cmdEnv' = Append(cmdEnv, Entry(K_GOARCH, ArchitectureString(envTarget.Architecture)))
    /\ envPc' = "Environ"
    /\ UNCHANGED <<envTarget, environ>>
    /\ UNCHANGED <<cbVars, tgtVars, packVars, icoVars, rsrcVars, fsVars, dmgVars, cpVars>>

\* Line 402: cmd.Env = append(cmd.Env, os.Environ()...); the command is then
\* started with this list.
EnvEnviron ==
    /\ envPc = "Environ"
    /\ cmdEnv' = cmdEnv \o environ
    /\ envPc' = "run"
    /\ UNCHANGED <<envTarget, environ>>
    /\ UNCHANGED <<cbVars, tgtVars, packVars, icoVars, rsrcVars, fsVars, dmgVars, cpVars>>

NextEnv ==
    \/ EnvGOOS
    \/ EnvGOARCH
    \/ EnvEnviron

(***************************************************************************)
(* dmg over the tree of a .app directory.                                  *)
(***************************************************************************)
N_Contents   == <<"C", "o", "n", "t", "e", "n", "t", "s">>
N_Info_plist == <<"I", "n", "f", "o", ".", "p", "l", "i", "s", "t">>
N_MacOS      == <<"M", "a", "c", "O", "S">>
N_go         == <<"g", "o">>
N_tool       == <<"t", "o", "o", "l">>
N_Resources  == <<"R", "e", "s", "o", "u", "r", "c", "e", "s">>
N_icon_icns  == <<"i", "c", "o", "n", ".", "i", "c", "n", "s">>

\* fmt.Sprintf("%s.app", name) of bundleMacOS, line 19.
N_app == <<"A", ".", "a", "p", "p">>

\* What may exist in a .app directory, in the order filepath.Walk visits it
\* (names in lexical order, a directory before its content).  path holds the
\* names below the .app directory.
AppUniverse ==
    << [path |-> <<>>, dir |-> TRUE],
       [path |-> <<N_Contents>>, dir |-> TRUE],
       [path |-> <<N_Contents, N_Info_plist>>, dir |-> FALSE],
       [path |-> <<N_Contents, N_MacOS>>, dir |-> TRUE],
       [path |-> <<N_Contents, N_MacOS, N_go>>, dir |-> FALSE],
       [path |-> <<N_Contents, N_MacOS, N_tool>>, dir |-> FALSE],
       [path |-> <<N_Contents, N_Resources>>, dir |-> TRUE],
       [path |-> <<N_Contents, N_Resources, N_icon_icns>>, dir |-> FALSE] >>

\* The .app trees: at most MaxAppEntries entries below the .app directory,
\* each inside a directory of the tree.
AppTrees ==
    { t \in SUBSET (2..Len(AppUniverse)) :
        /\ Cardinality(t) <= MaxAppEntries
        /\ \A e \in t :
              \/ Len(AppUniverse[e].path) = 1
              \/ \E d \in t : /\ AppUniverse[d].dir
                              /\ AppUniverse[d].path = SubSeq(AppUniverse[e].path, 1,
                                                              Len(AppUniverse[e].path) - 1) }

\* The order in which filepath.Walk visits the .app tree t: src first.
AppWalkOrder(t) ==
    LET Present(e) == e = 1 \/ e \in t
    IN SelectSeq([e \in 1..Len(AppUniverse) |-> e], Present)

\* The directories bundleMacOS is given as dest.
DestDirs == { <<"/", "o">>, <<"/", "t", "m", "p">> }

\* filepath.Dir on the absolute, clean paths of this model: the path up to
\* its last separator.
Dir(q) ==
    LET last == CHOOSE k \in 1..Len(q) :
                    q[k] = "/" /\ \A j \in (k + 1)..Len(q) : q[j] # "/"
    IN IF last = 1 THEN <<"/">> ELSE SubSeq(q, 1, last - 1)

\* The characters of s.
Chars(s) == { s[k] : k \in 1..Len(s) }

\* strings.Trim(s, cutset): s without the leading and the trailing characters
\* that occur in cutset.
RECURSIVE TrimLeft(_, _)
TrimLeft(s, cutset) ==
    IF s # <<>> /\ Head(s) \in Chars(cutset) THEN TrimLeft(Tail(s), cutset) ELSE s
RECURSIVE TrimRight(_, _)
TrimRight(s, cutset) ==
    IF s # <<>> /\ s[Len(s)] \in Chars(cutset)
    THEN TrimRight(SubSeq(s, 1, Len(s) - 1), cutset) ELSE s
Trim(s, cutset) == TrimRight(TrimLeft(s, cutset), cutset)

InitDmg ==
    /\ dmgPc = "walk"
    /\ appTree \in AppTrees
    /\ dmgSrc \in { Join(d, <<N_app>>) : d \in DestDirs }
    /\ dmgPos = 1
    /\ image = <<>>

\* Lines 107-126, the callback on the next entry: a directory is passed over,
\* a file is opened and added to the image under
\* strings.Trim(path, filepath.Dir(src)).  An error of the walk, of os.Open
\* or of AddFile ends dmg.
DmgVisit ==
    /\ dmgPc = "walk"
    /\ LET order == AppWalkOrder(appTree)
           e == AppUniverse[order[dmgPos]]
           q == Join(dmgSrc, e.path)
       IN \/ /\ image' = IF e.dir THEN image
                         ELSE Append(image, Trim(q, Dir(dmgSrc)))
             /\ dmgPos' = dmgPos + 1
             /\ dmgPc' = IF dmgPos = Len(order) THEN "write" ELSE "walk"
          \/ /\ dmgPc' = "error"
             /\ UNCHANGED <<image, dmgPos>>
    /\ UNCHANGED <<appTree, dmgSrc>>
    /\ UNCHANGED <<cbVars, tgtVars, packVars, icoVars, rsrcVars, fsVars, envVars, cpVars>>

\* Lines 127-146: the image is written to a buffer and then to <dst>/<id>.dmg.
DmgWrite ==
    /\ dmgPc = "write"
    /\ \E ok \in BOOLEAN : dmgPc' = IF ok THEN "done" ELSE "error"
    /\ UNCHANGED <<appTree, dmgSrc, dmgPos, image>>
    /\ UNCHANGED <<cbVars, tgtVars, packVars, icoVars, rsrcVars, fsVars, envVars, cpVars>>

NextDmg ==
    \/ DmgVisit
    \/ DmgWrite

(***************************************************************************)
(* cp(src, dst) with non-empty paths: src names a regular file, dst names  *)
(* nothing, a regular file or a directory.                                 *)
(***************************************************************************)
FileContents == SeqsUpTo(1..MaxByte, MaxFileLen)

InitCp ==
    /\ cpPc = "call"
    /\ srcData \in FileContents
    /\ dstFile \in { [kind |-> "absent", data |-> <<>>], [kind |-> "dir", data |-> <<>>] }
                   \cup { [kind |-> "file", data |-> d] : d \in FileContents }
    /\ cpRet = "none"

\* Lines 116-137: both paths are made absolute, src is opened and the parent
\* directory of dst is created when it is missing; each may fail.
CpOpenSrc ==
    /\ cpPc = "call"
    /\ \/ cpPc' = "opened" /\ UNCHANGED cpRet
       \/ cpPc' = "returned" /\ cpRet' = "open"
    /\ UNCHANGED <<srcData, dstFile>>
    /\ UNCHANGED <<cbVars, tgtVars, packVars, icoVars, rsrcVars, fsVars, envVars, dmgVars>>

\* os.OpenFile(dst, os.O_CREATE|os.O_RDWR, 0777): a missing file is created
\* empty, an existing file is opened with its content, a directory cannot be
\* opened for writing.
OpenFile(f) ==
    CASE f.kind = "absent" -> [kind |-> "file", data |-> <<>>]
      [] f.kind = "file"   -> f
      [] OTHER             -> f

\* Lines 138-141.
CpOpenDst ==
    /\ cpPc = "opened"
    /\ \/ /\ dstFile.kind # "dir"
          /\ dstFile' = OpenFile(dstFile)
          /\ cpPc' = "copy"
          /\ UNCHANGED cpRet
       \/ /\ cpPc' = "returned"
          /\ cpRet' = "creating"
          /\ UNCHANGED dstFile
    /\ UNCHANGED srcData
    /\ UNCHANGED <<cbVars, tgtVars, packVars, icoVars, rsrcVars, fsVars, envVars, dmgVars>>

\* Writing the bytes new at offset 0 of a file that holds old: the bytes of
\* old beyond the length of new stay.
WriteAt0(old, new) ==
    new \o (IF Len(old) > Len(new) THEN SubSeq(old, Len(new) + 1, Len(old)) ELSE <<>>)

\* Lines 143-146: io.Copy(dstf, srcf) writes the bytes of src from the start
\* of dst; a failing write leaves a part of them and an error.
CpCopy ==
    /\ cpPc = "copy"
    /\ \/ /\ dstFile' = [dstFile EXCEPT !.data = WriteAt0(@, srcData)]
          /\ cpRet' = "nil"
       \/ /\ \E n \in 0..Len(srcData) :
                dstFile' = [dstFile EXCEPT !.data = WriteAt0(@, SubSeq(srcData, 1, n))]
          /\ cpRet' = "copying data"
    /\ cpPc' = "returned"
    /\ UNCHANGED srcData
    /\ UNCHANGED <<cbVars, tgtVars, packVars, icoVars, rsrcVars, fsVars, envVars, dmgVars>>

NextCp ==
    \/ CpOpenSrc
    \/ CpOpenDst
    \/ CpCopy

(***************************************************************************)
(* Claims                                                                  *)
(***************************************************************************)
Requested == 1..Len(Targets)

FailedTasks == { i \in Requested : taskPc[i] = "Failed" }

\* Compile ran its loop and returned (no input error before the loop).
CompileFinished == compilePc = "Returned" /\ compileRet.kind # "input"

\* Indices of p.Artifacts that hold the binary built by task i.
ArtifactsOf(i) == { k \in 1..Len(Artifacts) : Artifacts[k].Binary = i }

\* Entries of the aggregate error that come from task i.
ErrorsOf(i) == { k \in 1..Len(compileRet.errs) : compileRet.errs[k].task = i }

\* C1: when Pack builds several targets, one fails and another succeeds,
\* every artifact that was built is still dispatched to its bundler.
C1_PartialFailureStillBundles ==
    ( /\ packPc = "Returned"
      /\ CompileFinished
      /\ \E i \in Requested : taskPc[i] = "Failed"
      /\ \E i \in Requested : taskPc[i] = "Done" )
    => \A k \in 1..Len(Artifacts) : bundlePc[k] = "done"

\* C2: when Compile returns, with K of the N targets failed, the artifact list
\* holds exactly N-K artifacts, one per succeeded target and none for a failed
\* one, and the aggregate error has exactly K entries, one per failed target
\* and prefixed with its name (no error when K = 0).
C2_CompileCountsExact ==
    CompileFinished =>
        LET K == Cardinality(FailedTasks)
        IN /\ Len(Artifacts) = Len(Targets) - K
           /\ \A i \in Requested :
                 Cardinality(ArtifactsOf(i)) = (IF taskPc[i] = "Done" THEN 1 ELSE 0)
           /\ Len(compileRet.errs) = K
           /\ \A i \in Requested :
                 /\ Cardinality(ErrorsOf(i)) = (IF taskPc[i] = "Failed" THEN 1 ELSE 0)
                 /\ \A k \in ErrorsOf(i) : compileRet.errs[k].name = TargetString(Targets[i])
           /\ (K = 0) = (compileRet.kind = "nil")

\* C3: every task that reads the shared stream until EOF, concurrently with
\* the others, obtains the complete content of the stream.
C3_SharedReadersGetAll ==
    \A r \in Readers : rdPc[r] = "eof" => rdOut[r] = Data

\* C4: a single reader that reads the buffer to completion, any number of
\* times and with any chunk sizes of at least one byte, obtains Data each
\* time; after each complete read Cursor is 0 and Data is what it was.
C4_RereadYieldsData ==
    /\ Data = seed
    /\ rdPc[1] = "eof" => (rdOut[1] = seed /\ Cursor = 0)

\* C4 witness: a second complete read of a buffer that takes several Read
\* calls has just ended.
C4_Witness ==
    /\ numReaders = 1
    /\ rdPc[1] = "eof"
    /\ rdRounds[1] >= 1
    /\ Len(Data) >= 3
    /\ rdOut[1] = Data

\* C5: no two build tasks are inside their append to the shared artifact list
\* at the same time, and no append is lost.
C5_AppendsSerialized ==
    /\ \A i, j \in Tasks :
          i # j => ~(taskPc[i] = "AppendWrite" /\ taskPc[j] = "AppendWrite")
    /\ \A i \in Tasks : taskPc[i] = "Done" => ArtifactsOf(i) # {}

\* The files the operation task i is executing writes, and those it reads.
FilesWritten(i) ==
    CASE taskPc[i] = "Copy"          -> {<<"sandbox", Sandbox(i)>>}
      [] taskPc[i] = "WriteIcon"     -> {<<"icon.ico">>}
      [] taskPc[i] = "WriteIconData" -> {<<"icon.ico">>}
      [] taskPc[i] = "Embed"         -> {<<"sandbox", Sandbox(i)>>}
      [] taskPc[i] = "Build"         -> {<<"sandbox", Sandbox(i)>>}
      [] OTHER                       -> {}

FilesRead(i) ==
    CASE taskPc[i] = "Embed"   -> {<<"icon.ico">>}
      [] taskPc[i] = "Build"   -> {<<"sandbox", Sandbox(i)>>}
      [] taskPc[i] = "ReadBin" -> {<<"sandbox", Sandbox(i)>>}
      [] OTHER                 -> {}

\* C6: no file is written by one build task while a different build task
\* reads or writes it.  Stated for the tasks of two different targets, whose
\* sandboxes are different directories.
C6_TaskFilesPrivate ==
    \A i, j \in Requested :
        (i # j /\ Targets[i] # Targets[j] /\ Running(i) /\ Running(j))
        => FilesWritten(i) \cap (FilesWritten(j) \cup FilesRead(j)) = {}

\* C7: for every list of targets, also one that names a target twice, no
\* sandbox is wiped, recreated or used for one task while another task that
\* owns the same directory is still running.
C7_SandboxExclusive ==
    \A i, j \in Requested :
        (i # j /\ Running(j) /\ Sandbox(i) = Sandbox(j))
        => /\ ~Running(i)
           /\ ~(compilePc = "MkdirAll" /\ idx = i)

\* C8: parsing the string that Target.String produced yields the Target.
C8_RoundTrip ==
    tgtPc = "roundtrip" =>
        /\ ~parsed.panic
        /\ parsed.Platform = tgt.Platform
        /\ parsed.Architecture = tgt.Architecture

\* C9: Compile returns only after the task of every requested target is Done
\* or Failed, and a task is Failed only on its own recorded error: the
\* failure of one target ends no other task.
C9_CompileWaitsForAll ==
    /\ CompileFinished => \A i \in Requested : taskPc[i] \in {"Done", "Failed"}
    /\ \A i \in Tasks :
          taskPc[i] = "Failed" =>
              \E k \in 1..Len(errs) : errs[k].task = i

\* C9 witness: Compile has returned, one target failed and another is done.
C9_Witness ==
    /\ CompileFinished
    /\ \E i, j \in Requested : taskPc[i] = "Failed" /\ taskPc[j] = "Done"

\* C10: a failure of the sandbox preparation (wipe, recreate, copy), of the
\* resource embedding, of the compiler or of the read of the binary ends the
\* target's task in Failed: no artifact for it and exactly one error naming it.
C10_FailureEndsFailed ==
    CompileFinished =>
        \A i \in Requested :
            (taskPc[i] = "Failed" \/ \E m \in {"cleaning sandbox", "preparing sandbox"} : <<i, m>> \in logged)
            => /\ taskPc[i] = "Failed"
               /\ ArtifactsOf(i) = {}
               /\ Cardinality(ErrorsOf(i)) = 1
               /\ \A k \in ErrorsOf(i) : compileRet.errs[k].name = TargetString(Targets[i])

\* The root is no existing directory, or the package that was asked for is no
\* directory under it.
InvalidInput == Root # "dir" \/ Pkg = "nosuch"

\* C11: with a root that is no existing directory, or a package that is no
\* directory under the root, Pack fails before any build starts: no sandbox
\* is wiped or created, no build task runs, nothing is bundled.
C11_InputErrorBeforeBuild ==
    InvalidInput =>
        /\ compilePc # "MkdirAll" /\ idx = 1
        /\ \A i \in Tasks : taskPc[i] = "none"
        /\ \A d \in SandboxNames : sandboxFiles[d] = {}
        /\ \A k \in Tasks : bundlePc[k] = "none"
        /\ packPc = "Returned" => packErr # "nil"

\* C12: whenever Pack returns an error, the pack command prints the error
\* and its process ends with a non-zero exit status.
C12_ErrorExitsNonZero ==
    (exitCode # -1 /\ packErr # "nil") => (printed /\ exitCode # 0)

\* C16: for every artifact of a Linux target, the bundling stage of Pack
\* writes the binary into <output>/<target>/ under its base name.
C16_LinuxBinaryPlaced ==
    \A k \in 1..Len(Artifacts) :
        (bundlePc[k] = "done" /\ Artifacts[k].Target.Platform = Linux)
        => dist[k] = bundleLinux

\* C17: after the Windows bundler succeeded for an artifact,
\* <output>/<target>/<name>.exe exists and holds the artifact's bytes.
C17_WindowsExePlaced ==
    \A k \in 1..Len(Artifacts) :
        (bundlePc[k] = "done" /\ Artifacts[k].Target.Platform = Windows
                              /\ bundleRes[k] = "ok")
        => "exe" \in dist[k]

\* C18: when the project root holds no icon.png and the caller supplied no
\* icon, Load leaves Icon and the ICO stream absent, no build task injects a
\* resource, and every artifact of a Pack that succeeded is bundled.
C18_NoIconDegradedMode ==
    (Root = "dir" /\ ~iconPng /\ ~supplied) =>
        /\ ~Icon /\ ~hasICO
        /\ \A i \in Tasks : taskPc[i] \notin {"WriteIcon", "WriteIconData", "Embed"}
        /\ \A d \in SandboxNames : "rsrc.syso" \notin sandboxFiles[d]
        /\ (packPc = "Returned" /\ packErr = "nil")
              => \A k \in 1..Len(Artifacts) : dist[k] # {}

\* Reading an ICO file back: unsigned little-endian fields at byte offset p.
U8At(f, p)  == f[p + 1]
U16At(f, p) == f[p + 1] + 256 * f[p + 2]
U32At(f, p) == f[p + 1] + 256 * f[p + 2] + 65536 * f[p + 3] + 16777216 * f[p + 4]

\* The k-th directory entry of the ICO file f.
EntryAt(f, k) ==
    LET p == 6 + 16 * (k - 1)
    IN [width |-> U8At(f, p), height |-> U8At(f, p + 1),
        planes |-> U16At(f, p + 4), bpp |-> U16At(f, p + 6),
        size |-> U32At(f, p + 8), offset |-> U32At(f, p + 12)]

\* C13: the file FromPNG produced has a header with image type 1 and image
\* count 6, then 6 directory entries of width and height 256 (stored as 0),
\* 128, 64, 48, 32, 16 in this order, each with 1 colour plane and 32 bits
\* per pixel.
C13_LadderDirectory ==
    icoPc = "done" =>
        /\ Len(outfile) >= 6 + 16 * 6
        /\ U16At(outfile, 0) = 0
        /\ U16At(outfile, 2) = 1
        /\ U16At(outfile, 4) = 6
        /\ \A k \in 1..6 :
              LET e == EntryAt(outfile, k)
                  side == <<0, 128, 64, 48, 32, 16>>[k]
              IN e.width = side /\ e.height = side /\ e.planes = 1 /\ e.bpp = 32

\* C13 witness: an encoding of a decodable source completed with six images.
C13_Witness ==
    /\ icoPc = "done"
    /\ decodable
    /\ Len(icons) = 6
    /\ EntryAt(outfile, 1).width = 0 /\ EntryAt(outfile, 6).width = 16

\* C14: in the file FromPNG produced the first entry's offset is 102, every
\* later offset is the previous offset plus the previous size, the payloads
\* lie at their offsets in directory order, and the file ends with the last
\* payload.
C14_OffsetsContiguous ==
    icoPc = "done" =>
        /\ EntryAt(outfile, 1).offset = 102
        /\ \A k \in 1..5 :
              EntryAt(outfile, k + 1).offset
                  = EntryAt(outfile, k).offset + EntryAt(outfile, k).size
        /\ \A k \in 1..6 :
              LET e == EntryAt(outfile, k)
              IN /\ e.size = Len(icons[k].Data)
                 /\ e.offset + e.size <= Len(outfile)
                 /\ SubSeq(outfile, e.offset + 1, e.offset + e.size) = icons[k].Data
        /\ Len(outfile) = EntryAt(outfile, 6).offset + EntryAt(outfile, 6).size

\* C14 witness: an encoding completed whose payloads differ in length.
C14_Witness ==
    /\ icoPc = "done"
    /\ Len(icons[1].Data) # Len(icons[2].Data)
    /\ Len(icons[3].Data) > 1
    /\ Len(outfile) > 102 + 6

\* The number of resources the first q records of a run registered.
RECURSIVE Registered(_, _)
Registered(rs, q) ==
    IF q = 0 THEN 0 ELSE Registered(rs, q - 1) + rs[q].icons + 1

\* C15: in every Embed run the m-th registered resource has ID m (1, 2, 3, ...
\* in registration order, so strictly increasing and without duplicate),
\* whatever the other runs do, and each group's Count and number of entries
\* equal the number of RT_ICON resources registered for its ICO.
C15_IdsSequential ==
    \A r \in Runs :
        \A q \in 1..Len(resources[r]) :
            LET rec == resources[r][q]
                before == Registered(resources[r], q - 1)
            IN /\ \A j \in 1..(rec.icons + 1) : NewID(rec.first, j) = before + j
               /\ rec.Count = rec.icons
               /\ rec.Entries = rec.icons

\* Positions in the walk order of the entries Find is looking for.
Matches ==
    { k \in 1..Len(WalkOrder(tree)) :
        LET e == Universe[WalkOrder(tree)[k]]
        IN e.dir = IsDir /\ Name(from, e) = name }

\* C19: when several entries of the requested name (and kind) exist under
\* the root, Find returns the first of them in the order of the walk.
C19_FirstMatchWins ==
    (fsPc = "done" /\ Matches # {}) =>
        LET first == CHOOSE k \in Matches : \A j \in Matches : k <= j
            q == Join(from, Universe[WalkOrder(tree)[first]].path)
        IN findRet = FindResult(IF Rel THEN Clean(TrimPrefix(q, from)) ELSE q, Rel)

\* The entry lies inside the output directory or inside the version-control
\* directory of the project root.
InExcludedDir(e) ==
    Len(Universe[e].path) >= 2 /\ Universe[e].path[1] \in {N_dist, N_git}

\* C20: Copy leaves a file of the project out of the sandbox only if the file
\* lies inside the output directory or inside the version-control directory,
\* whatever the file's name and the path of the root; every other file is
\* copied.
C20_OnlyExcludedDirsLeftOut ==
    fsPc = "copied" =>
        \A e \in tree :
            ~Universe[e].dir =>
                ((Join(<<>>, Universe[e].path) \in copied) <=> ~InExcludedDir(e))

\* The platform tokens and the architecture tokens FromStr recognises.
KnownPlatforms == {Str_windows, Str_darwin, Str_linux, Str_js}
KnownArchitectures == {Str_386, Str_amd64, Str_arm, Str_arm64, Str_wasm}

\* C21: NewTarget fails on no input string (no error, no panic), and a
\* platform or architecture token it does not recognise yields the zero
\* variant of that field.
C21_NewTargetTotal ==
    tgtPc = "parsed" =>
        /\ ~parsed.panic
        /\ Split(str, "/")[1] \notin KnownPlatforms => parsed.Platform = 0
        /\ (Len(Split(str, "/")) >= 2 /\ Split(str, "/")[2] \notin KnownArchitectures)
               => parsed.Architecture = 0

\* C22: an empty ProjectInfo.Root is replaced by the working directory before
\* its first use: the metadata search of Load does not run on the empty root,
\* and Pack does not fail because of it.
C22_EmptyRootDefaulted ==
    (Root = "" /\ LoadWalks) => (packPc # "Returned" /\ compilePc # "Resolve")

\* C23: within one Embed call, the file of every registered RT_ICON slice is
\* open from its registration until write has emitted the slices: no slice is
\* read after its file was closed.
C23_SlicesReadFromOpenFile ==
    \A r \in Runs : embPc[r] \in {"icons", "return", "write"} => SlicesReadable(r)

\* Task i moves to step s.
Enters(i, s) == taskPc[i] # s /\ taskPc'[i] = s

\* C24: the task of every target takes its steps in the order copy, resource
\* injection, compilation, collection.  The compiler is invoked right after
\* the task's copy completed or, for a Windows target with an ICO stream and
\* for no other, right after the task wrote the resource object into the
\* sandbox; the binary is read only after the compiler succeeded, and an
\* Artifact is appended only by a task that has read its binary.
C24_TaskStepOrder ==
    [][/\ \A i \in Tasks :
         LET injects == Targets[i].Platform = Windows /\ hasICO
         IN /\ Enters(i, "WriteIcon") => (taskPc[i] = "Copy" /\ injects)
            /\ Enters(i, "WriteIconData") => (taskPc[i] = "WriteIcon" /\ injects)
            /\ Enters(i, "Embed") => (taskPc[i] = "WriteIconData" /\ injects)
            /\ Enters(i, "Build") =>
                  IF injects
                  THEN taskPc[i] = "Embed" /\ "rsrc.syso" \in sandboxFiles'[Sandbox(i)]
                  ELSE taskPc[i] = "Copy" /\ "src" \in sandboxFiles'[Sandbox(i)]
            /\ Enters(i, "ReadBin") =>
                  (taskPc[i] = "Build" /\ "bin" \in sandboxFiles'[Sandbox(i)])
            /\ Enters(i, "Append") => taskPc[i] = "ReadBin"
            /\ Enters(i, "AppendWrite") => taskPc[i] = "Append"
            /\ Enters(i, "Done") =>
                  (taskPc[i] = "AppendWrite" /\ Artifacts' # Artifacts)
       /\ Artifacts' # Artifacts => \E j \in Tasks : Enters(j, "Done")]_vars

\* C24 witness: a Windows target went through the resource step, was compiled
\* and collected, next to a target that needed no resource step.
C24_Witness ==
    /\ hasICO
    /\ \E i, j \in Requested :
          /\ Targets[i].Platform = Windows /\ Targets[j].Platform # Windows
          /\ taskPc[i] = "Done" /\ taskPc[j] = "Done"
          /\ "rsrc.syso" \in sandboxFiles[Sandbox(i)]
          /\ "rsrc.syso" \notin sandboxFiles[Sandbox(j)]
          /\ ArtifactsOf(i) # {} /\ ArtifactsOf(j) # {}

\* C25: for every target, with a subpackage and with an empty Pkg, the
\* package path handed to the compiler resolves inside the target's sandbox
\* copy and never into the original project root.
C25_PackageInsideSandbox ==
    \A i \in Requested :
        taskPc[i] \in {"Build", "ReadBin", "Append", "AppendWrite", "Done"}
            => CompiledTree(Pkg) = "sandbox"

\* C26: in the environment the compiler is started with, the effective GOOS
\* and GOARCH are the platform and the architecture of the target, whatever
\* the environment of the parent process holds.
C26_TargetEnvWins ==
    envPc = "run" =>
        /\ Effective(cmdEnv, K_GOOS) = PlatformString(envTarget.Platform)
        /\ Effective(cmdEnv, K_GOARCH) = ArchitectureString(envTarget.Architecture)

\* The regular files of the .app tree.
AppFiles == { e \in appTree : ~AppUniverse[e].dir }

\* The path of entry e relative to the parent directory of the .app.
ImagePath(e) == Join(N_app, AppUniverse[e].path)

\* C27: once the walk is over, every regular file under the .app directory
\* was added to the image exactly once, under its path relative to the
\* parent directory of the .app, and nothing else was added (so distinct
\* files have distinct image paths and no directory is an entry).
C27_ImageHoldsEachFileOnce ==
    dmgPc \in {"write", "done"} =>
        /\ Len(image) = Cardinality(AppFiles)
        /\ \A e \in AppFiles :
              Cardinality({ k \in 1..Len(image) : image[k] = ImagePath(e) }) = 1

\* The bundlers Pack started.
Bundlers == { k \in Tasks : bundlePc[k] # "none" }

\* C28: Pack returns from the bundling stage only when every bundler it
\* started has finished; the step of one bundler, failing or not, leaves
\* every other bundler and Pack itself as they were, its failure is recorded,
\* and a started bundler can always take its step.
C28_BundlersIndependent ==
    [][/\ (packPc = "Wait" /\ packPc' = "Returned") =>
             /\ Bundlers = 1..Len(Artifacts)
             /\ \A k \in Bundlers : bundlePc[k] = "done"
       /\ \A k \in Tasks :
             bundlePc[k] # bundlePc'[k] /\ bundlePc[k] = "run" =>
                 /\ bundlePc'[k] = "done" /\ bundleRes'[k] # "none"
                 /\ packPc' = packPc /\ packErr' = packErr
                 /\ \A j \in Tasks \ {k} :
                       /\ bundlePc'[j] = bundlePc[j]
                       /\ bundleRes'[j] = bundleRes[j]
                       /\ dist'[j] = dist[j]
       /\ \A k \in Tasks : bundlePc[k] = "run" => ENABLED Bundle(k)]_vars

\* C28 witness: Pack returned after two bundlers, one of which failed while
\* the other succeeded.
C28_Witness ==
    /\ packPc = "Returned" /\ packErr = "nil"
    /\ \E j, k \in Bundlers :
          /\ bundlePc[j] = "done" /\ bundleRes[j] = "failed"
          /\ bundlePc[k] = "done" /\ bundleRes[k] = "ok"

\* C29: when cp(src, dst) returns nil, the content of dst is exactly the
\* content of src, whatever dst held before the call.
C29_CopyReplacesContent ==
    (cpPc = "returned" /\ cpRet = "nil") =>
        (dstFile.kind = "file" /\ dstFile.data = srcData)

\* C30: with non-empty Data and a single reader, whatever the lengths of the
\* buffers passed to Read (0 included), Cursor stays within 0..len(Data)-1
\* between the calls, and a call returns io.EOF exactly when it delivered the
\* last byte of Data, leaving Cursor at 0.
C30_CursorInRange ==
    [][(numReaders = 1 /\ ~DataNil /\ Data # <<>>) =>
          /\ Cursor \in 0..(Len(Data) - 1)
          /\ Cursor' \in 0..(Len(Data) - 1)
          /\ (rdPc[1] = "call" /\ rdPc'[1] # "call") => rdPc'[1] = "copied"
          /\ (rdPc[1] = "copied" /\ rdPc'[1] # "copied") =>
                LET last == rdN[1] > 0 /\ Cursor + rdN[1] = Len(Data)
                IN /\ rdPc'[1] = "eof" <=> last
                   /\ rdPc'[1] = "call" <=> ~last
                   /\ last => Cursor' = 0
                   /\ ~last => Cursor' = Cursor + rdN[1]]_vars

\* C30 witness: after a complete pass over Data, which ended with io.EOF and
\* the reset, a Read with an empty buffer is under way in the middle of Data.
C30_Witness ==
    /\ numReaders = 1 /\ ~DataNil /\ Len(Data) >= 2
    /\ rdRounds[1] >= 1
    /\ rdPc[1] = "copied" /\ rdN[1] = 0
    /\ Cursor >= 1 /\ rdOut[1] = SubSeq(Data, 1, Cursor)

\* The variables of a component that a specification does not exercise.
IdleCopyBuffer ==
    /\ Cursor = 0 /\ Data = <<>> /\ DataNil = TRUE /\ seed = <<>>
    /\ numReaders = 1
    /\ rdPc = [r \in Readers |-> "idle"]
    /\ rdN = [r \in Readers |-> 0]
    /\ rdOut = [r \in Readers |-> <<>>]
    /\ rdRounds = [r \in Readers |-> 0]

IdleTarget ==
    /\ tgtPc = "idle" /\ tgt = Target(0, 0) /\ str = <<>> /\ parsed = NoTarget

IdleFs ==
    /\ fsPc = "idle" /\ tree = {} /\ from = <<>> /\ name = <<>>
    /\ IsDir = FALSE /\ Rel = FALSE /\ walkPos = 1 /\ found = <<>>
    /\ findRet = <<>> /\ copied = {}

IdleEnv ==
    /\ envPc = "idle" /\ envTarget = Target(0, 0) /\ environ = <<>> /\ cmdEnv = <<>>

IdleDmg ==
    /\ dmgPc = "idle" /\ appTree = {} /\ dmgSrc = <<>> /\ dmgPos = 1 /\ image = <<>>

IdleCp ==
    /\ cpPc = "idle" /\ srcData = <<>> /\ dstFile = [kind |-> "absent", data |-> <<>>]
    /\ cpRet = "none"

IdleAux == IdleEnv /\ IdleDmg /\ IdleCp

IdlePure == IdleFromPNG /\ IdleEmbed /\ IdleFs /\ IdleAux

InitSpecCopyBuffer == InitCopyBuffer /\ IdleTarget /\ IdlePack /\ IdlePure

SpecCopyBuffer == InitSpecCopyBuffer /\ [][NextCopyBuffer]_vars

SpecReadCalls == InitSpecCopyBuffer /\ [][NextReadCalls]_vars

InitSpecSharedBuffer == InitSharedBuffer /\ IdleTarget /\ IdlePack /\ IdlePure

SpecSharedBuffer == InitSpecSharedBuffer /\ [][NextCopyBuffer]_vars

InitSpecTarget == InitTarget /\ IdleCopyBuffer /\ IdlePack /\ IdlePure

SpecTarget == InitSpecTarget /\ [][NextTarget]_vars

InitSpecPack == InitPack /\ IdleCopyBuffer /\ IdleTarget /\ IdlePure

SpecPack == InitSpecPack /\ [][NextPack]_vars

InitSpecPackInputs == InitPackInputs /\ IdleCopyBuffer /\ IdleTarget /\ IdlePure

SpecPackInputs == InitSpecPackInputs /\ [][NextPack]_vars

InitSpecFromPNG == InitFromPNG /\ IdleCopyBuffer /\ IdleTarget /\ IdlePack /\ IdleEmbed /\ IdleFs /\ IdleAux

InitSpecEmbed == InitEmbed /\ IdleCopyBuffer /\ IdleTarget /\ IdlePack /\ IdleFromPNG /\ IdleFs /\ IdleAux

SpecEmbed == InitSpecEmbed /\ [][NextEmbed]_vars

SpecFromPNG == InitSpecFromPNG /\ [][NextFromPNG]_vars

InitSpecFinder == InitFinder /\ IdleCopyBuffer /\ IdleTarget /\ IdlePack /\ IdleFromPNG /\ IdleEmbed /\ IdleAux

SpecFinder == InitSpecFinder /\ [][NextFinder]_vars

InitSpecCopier == InitCopier /\ IdleCopyBuffer /\ IdleTarget /\ IdlePack /\ IdleFromPNG /\ IdleEmbed /\ IdleAux

SpecCopier == InitSpecCopier /\ [][NextCopier]_vars

InitSpecEnv ==
    /\ InitEnv /\ IdleCopyBuffer /\ IdleTarget /\ IdlePack
    /\ IdleFromPNG /\ IdleEmbed /\ IdleFs /\ IdleDmg /\ IdleCp

SpecEnv == InitSpecEnv /\ [][NextEnv]_vars

InitSpecDmg ==
    /\ InitDmg /\ IdleCopyBuffer /\ IdleTarget /\ IdlePack
    /\ IdleFromPNG /\ IdleEmbed /\ IdleFs /\ IdleEnv /\ IdleCp

SpecDmg == InitSpecDmg /\ [][NextDmg]_vars

InitSpecCp ==
    /\ InitCp /\ IdleCopyBuffer /\ IdleTarget /\ IdlePack
    /\ IdleFromPNG /\ IdleEmbed /\ IdleFs /\ IdleEnv /\ IdleDmg

SpecCp == InitSpecCp /\ [][NextCp]_vars

Spec == SpecPack

====
